---- MODULE Spec2Model ----
(***************************************************************************)
(* A model of pi_cache: the file-backed and in-memory storage backends     *)
(* (src/pi_cache/file_cache.py, src/pi_cache/in_memory_cache.py), the      *)
(* serializer (src/pi_cache/base_cache.py) and the memoizing call wrapper  *)
(* (cache_decorator).                                                      *)
(*                                                                         *)
(* The file backend is modelled at the granularity of its system calls:    *)
(* open, flock, read, write, replace and unlink act on a directory that    *)
(* maps path names to inodes, so that a lock marker that is unlinked while *)
(* another caller still has it open stays a distinct inode.                *)
(***************************************************************************)
EXTENDS Integers, Sequences, FiniteSets, TLC

VARIABLES
    cfg,        \* what this run consists of: callers, keys, entries offered to set
    pc,         \* pc[p]: the position of caller p inside its backend operation
    op,         \* op[p]: the operation caller p runs: name, key, entry
    res,        \* res[p]: what p's last finished operation returned or raised
    timer,      \* timer[p]: time elapsed since p's start_time or since p's lock was granted
    dirLock,    \* dirLock[k]: inode linked at cache_<k>.json.lock, 0 if none
    lockHolder, \* lockHolder[i]: the caller whose flock on lock inode i is granted, 0 if none
    lockFd,     \* lockFd[p]: the lock inode p has open (lock_file), 0 if none
    dirData,    \* dirData[k]: inode linked at cache_<k>.json, 0 if none
    dirTmp,     \* dirTmp[k]: inode linked at cache_<k>.json.tmp, 0 if none
    content,    \* content[i]: the chunks written to data inode i
    fd,         \* fd[p]: the data inode p has open for writing, 0 if none
    blk,        \* blk[p]: callers that hold p's key's lock since before p's operation began
    cacheDir,   \* whether the directory cache_dir exists
    denied,     \* the keys whose entry file cannot be opened for reading
    lastSet,    \* lastSet[k]: with one caller, the entry of the most recent set(k)
                \* that returned, or NoEntry
    damage,     \* damage[k]: with one caller, what became of an entry file that was
                \* corrupted from outside: "none", "corrupt", "healed", "rewritten"
    mem,        \* mem[k]: InMemoryCache._cache, the entry stored under k or NoEntry
    memRes,     \* what the last operation on the in-memory backend returned
    memLast,    \* memLast[k]: the entry of the most recent in-memory set(k), or NoEntry
    wpc,        \* wpc[p]: the position of caller p inside the memoizing wrapper
    wcall,      \* wcall[p]: the call p is making: argument, entry at hand, function invoked
    ret,        \* ret[p]: what p's last call of the memoized function returned or raised
    runs,       \* how many times the wrapped function has been executed
    ncalls,     \* ncalls[a]: how many calls with argument a have begun
    first,      \* first[a]: the payload the first call with argument a returned, or NoPay
    now,        \* the clock (datetime.now)
    keyOf,      \* keyOf[a]: the cache keys generated so far for the call a
    verdicts,   \* what is_cache_valid returned for the run's entry, and at which instant
    registry,   \* TypeRegistry._serializers and TypeRegistry._deserializers
    coded       \* what the last call of custom_encoder or custom_decoder was given and gave

ghostVars == <<lastSet, damage>>
dirVars == <<cacheDir, denied>>
fileVars == <<pc, op, res, timer, dirLock, lockHolder, lockFd, dirData, dirTmp, content, fd, blk, ghostVars, dirVars>>
memVars == <<mem, memRes, memLast>>
wrapVars == <<wpc, wcall, ret, runs, ncalls, first, now, keyOf, verdicts>>
\* What no operation of the file backend changes.
regVars == <<registry, coded>>
envVars == <<cfg, memVars, wrapVars, dirVars, regVars>>
\* What no call of the memoized function changes, apart from the stored entries.
backendVars == <<pc, op, res, timer, dirLock, lockHolder, lockFd, dirTmp, fd, blk, ghostVars, memRes, memLast, dirVars>>
vars == <<cfg, fileVars, memVars, wrapVars, regVars>>

----------------------------------------------------------------------------
(* Bounds of the model.                                                    *)

NumProcs == 2
NumKeys == 2
\* Calls of the memoized function per argument, and the instants of the clock.
MaxCalls == 3
MaxTime == 2
\* lock_timeout, in units of the polling interval (time.sleep(0.1)).
LockTimeout == 1

Procs == 1..NumProcs
Keys == 1..NumKeys
LockInodes == 1..(NumProcs + 1)
DataInodes == 1..(NumProcs + 2)

----------------------------------------------------------------------------
(* Values: payloads, metadata, entries.                                    *)

\* A payload is a typed value; "type" is the Python type of the object.
\*   int, str       builtins
\*   datetime       datetime.datetime
\*   SampleData     a pydantic model importable by its qualified name
\*   LocalModel     a pydantic model defined inside a function: its module has
\*                  no attribute of that name
\*   object         an instance of an arbitrary class (json cannot encode it)
\* "v" is what tells two objects of a type apart: Num(n), or Iso(t) for a
\* string that is the ISO format of the instant t.
Pay(t, v) == [type |-> t, v |-> v]

Num(n) == <<"num", n>>

NoTime == 0 - 1

_qualified_name(data) ==
    CASE data.type = "int" -> "builtins.int"
      [] data.type = "str" -> "builtins.str"
      [] data.type = "dict" -> "builtins.dict"
      [] data.type = "datetime" -> "datetime.datetime"
      [] data.type = "SampleData" -> "tests.SampleData"
      [] data.type = "LocalModel" -> "tests.LocalModel"
      [] OTHER -> "tests.Plain"

ModelMetadata(creation, last_update, expires, args, from_cache, data_type) ==
    [creation_timestamp |-> creation, last_update_timestamp |-> last_update,
     expires_at |-> expires, args |-> args, from_cache |-> from_cache,
     data_type |-> data_type, is_flat_data |-> FALSE]

CacheEntry(metadata, data) == [metadata |-> metadata, data |-> data]

\* tests/conftest.py: an entry created at the instant t, expiring one hour later.
HourTicks == 1
create_cache_entry(data, t) ==
    CacheEntry(ModelMetadata(t, t, t + HourTicks, <<>>, FALSE, _qualified_name(data)), data)

NoPay == Pay("none", Num(0))
NoMeta == ModelMetadata(NoTime, NoTime, NoTime, <<>>, FALSE, "none")

\* Stands for "no entry" where an entry-shaped value is needed (Python's None).
NoEntry == CacheEntry(NoMeta, NoPay)

----------------------------------------------------------------------------
(* Serialization (BaseCache.serialize, custom_encoder) and deserialization *)
(* (BaseCache.deserialize, _deserialize_data). A JSON value is             *)
(* [j |-> "num" | "str" | "obj" | "null", v |-> ...]; a text is a sequence *)
(* of chunks, the unit in which a write reaches the file.                  *)

Iso(t) == <<"iso", t>>

serialize_datetime(t) == [j |-> "str", v |-> Iso(t)]

EncodeTime(t) == IF t = NoTime THEN [j |-> "null", v |-> 0] ELSE serialize_datetime(t)

\* pydantic's validation of an Optional[datetime] field: null or an ISO string.
DecodeTime(jv) == IF jv.j = "null" THEN NoTime ELSE jv.v[2]

Serializable(data) == data.type # "object"

\* custom_encoder on the payload, after CacheEntry.model_dump(): a model has
\* become its field map, a datetime becomes its ISO string, the rest passes.
custom_encoder(data) ==
    CASE data.type = "int" -> [j |-> "num", v |-> data.v]
      [] data.type = "str" -> [j |-> "str", v |-> data.v]
      [] data.type = "datetime" -> serialize_datetime(data.v[2])
      [] OTHER -> [j |-> "obj", v |-> data.v]

EncodeMeta(m) ==
    [creation_timestamp |-> EncodeTime(m.creation_timestamp),
     last_update_timestamp |-> EncodeTime(m.last_update_timestamp),
     expires_at |-> EncodeTime(m.expires_at),
     args |-> m.args, from_cache |-> m.from_cache,
     data_type |-> m.data_type, is_flat_data |-> m.is_flat_data]

DecodeMeta(j) ==
    [creation_timestamp |-> DecodeTime(j.creation_timestamp),
     last_update_timestamp |-> DecodeTime(j.last_update_timestamp),
     expires_at |-> DecodeTime(j.expires_at),
     args |-> j.args, from_cache |-> j.from_cache,
     data_type |-> j.data_type, is_flat_data |-> j.is_flat_data]

\* The text json.dumps produces, in two chunks: {"metadata": ..., and "data": ...}.
serialize(entry) ==
    << [part |-> "metadata", json |-> EncodeMeta(entry.metadata)],
       [part |-> "data", json |-> custom_encoder(entry.data)] >>

Hole == [part |-> "hole", json |-> 0]
Garbage == << [part |-> "garbage", json |-> 0] >>

\* json.loads succeeds exactly on a complete text.
WellFormed(text) ==
    /\ Len(text) = 2
    /\ text[1].part = "metadata"
    /\ text[2].part = "data"

\* importlib.import_module + getattr: a class defined inside a function is not
\* an attribute of its module.
Resolvable(data_type) == data_type # "tests.LocalModel"

\* issubclass(class_, BaseModel)
IsModelType(data_type) == data_type \in {"tests.SampleData", "tests.LocalModel"}

\* The Python value json.loads gives for a JSON value.
Loaded(jv) ==
    CASE jv.j = "num" -> Pay("int", jv.v)
      [] jv.j = "str" -> Pay("str", jv.v)
      [] OTHER -> Pay("dict", jv.v)

\* _deserialize_data: a field map whose declared type is a model class is
\* rebuilt as that class; anything else is returned as loaded.
_deserialize_data(jv, data_type) ==
    IF IsModelType(data_type)
    THEN Pay(IF data_type = "tests.SampleData" THEN "SampleData" ELSE "LocalModel", jv.v)
    ELSE Loaded(jv)

\* What deserialize(text) does: "ValueError" (json.JSONDecodeError rewrapped),
\* "AttributeError" (the declared type cannot be resolved), or an entry.
DeserializeOutcome(text) ==
    IF ~WellFormed(text) THEN "ValueError"
    ELSE IF ~Resolvable(text[1].json.data_type) THEN "AttributeError"
    ELSE "ok"

deserialize(text) ==
    CacheEntry(DecodeMeta(text[1].json),
               _deserialize_data(text[2].json, text[1].json.data_type))

----------------------------------------------------------------------------
(* The file system under cache_dir.                                        *)

Range(f) == {f[x] : x \in DOMAIN f}

Min(S) == CHOOSE x \in S : \A y \in S : x <= y

\* The inode a creating open() gets: one that no path and no descriptor names.
FreshLock == Min(LockInodes \ (Range(dirLock) \cup Range(lockFd)))
FreshData == Min(DataInodes \ (Range(dirData) \cup Range(dirTmp) \cup Range(fd)))

\* An inode that no path and no descriptor names any more is gone.
Gc(c, dd, dt, f) ==
    [i \in DataInodes |->
        IF i \in (Range(dd) \cup Range(dt) \cup Range(f)) THEN c[i] ELSE <<>>]

\* write(2) of one chunk at position pos; a write past the end leaves a hole.
WriteAt(c, pos, ch) ==
    IF pos <= Len(c) THEN [c EXCEPT ![pos] = ch]
    ELSE c \o [i \in 1..(pos - Len(c) - 1) |-> Hole] \o <<ch>>

\* Some element of a set of entries, to fill the entry slot of get and exists.
Min2(S) == CHOOSE x \in S : TRUE

Key(p) == op[p].key

\* p holds the flock on the lock file it has open.
HoldsLock(p) == lockFd[p] # 0 /\ lockHolder[lockFd[p]] = p

\* What an operation returned or raised: the operation (name, key), "none" for
\* None, "entry" with the entry, "bool" with the truth value, "ok" for a set
\* that returned, or the name of the error raised.
Outcome(name, k, tag, e, b) == [name |-> name, key |-> k, tag |-> tag, entry |-> e, b |-> b]
Result(p, tag) == Outcome(op[p].name, Key(p), tag, NoEntry, FALSE)
ResultEntry(p, e) == Outcome(op[p].name, Key(p), "entry", e, FALSE)
ResultBool(p, b) == Outcome(op[p].name, Key(p), "bool", NoEntry, b)

\* p is inside the polling loop of _file_lock.
Polling(p) == pc[p] \in {"lock_try", "sleep"}

\* Time passes by one polling interval: for a caller that polls, since its
\* start_time; for a caller that holds a lock, since the lock was granted.
\* Past lock_timeout the exact value no longer matters.
Advance(t) ==
    [q \in Procs |->
        IF (Polling(q) \/ HoldsLock(q)) /\ t[q] <= LockTimeout THEN t[q] + 1 ELSE t[q]]

NoOp == [name |-> "none", key |-> 1, entry |-> NoEntry]

\* The results that are errors raised to the caller.
Raised == {"TimeoutError", "ValueError", "OSError", "AttributeError", "FileNotFoundError"}

\* The history kept for a single caller, where "the most recent set" is
\* defined: an operation (name, k) has finished with result tag.
Sequential == Cardinality(cfg.callers) = 1

LastSetAfter(name, k, tag, e) ==
    IF Sequential /\ name = "set" /\ tag = "ok" THEN [lastSet EXCEPT ![k] = e] ELSE lastSet

\* A get that met the corrupted file makes it "healed"; a set that returned
\* makes a corrupted file sound again and a healed key "rewritten".
DamageAfter(name, k, tag) ==
    CASE Sequential /\ name = "get" /\ damage[k] = "corrupt" -> [damage EXCEPT ![k] = "healed"]
      [] Sequential /\ name = "set" /\ tag = "ok" /\ damage[k] = "corrupt" -> [damage EXCEPT ![k] = "none"]
      [] Sequential /\ name = "set" /\ tag = "ok" /\ damage[k] = "healed" -> [damage EXCEPT ![k] = "rewritten"]
      [] OTHER -> damage

----------------------------------------------------------------------------
(* FileCache: get, set, exists and the _file_lock context manager.         *)

\* A caller begins get(k), set(k, e) or exists(k). get tests the entry file
\* first (line 73); set makes sure the directory exists (os.makedirs, line 93)
\* and goes to _file_lock; exists goes straight to _file_lock.
Start(p) ==
    /\ cfg.backend = "file"
    /\ p \in cfg.callers
    /\ pc[p] = "done"
    /\ \E name \in {"get", "set", "exists"}, k \in cfg.keys, e \in cfg.entries :
        /\ name # "set" => e = Min2(cfg.entries)
        /\ op' = [op EXCEPT ![p] = [name |-> name, key |-> k,
                                    entry |-> IF name = "set" THEN e ELSE NoEntry]]
        /\ pc' = [pc EXCEPT ![p] = IF name = "get" THEN "get_exists" ELSE "lock_open"]
        /\ blk' = [blk EXCEPT ![p] = {q \in Procs \ {p} : HoldsLock(q) /\ Key(q) = k}]
        /\ res' = [res EXCEPT ![p] = Outcome(name, k, "running", NoEntry, FALSE)]
        /\ cacheDir' = (cacheDir \/ name = "set")
    /\ timer' = [timer EXCEPT ![p] = 0]
    /\ UNCHANGED <<cfg, regVars, memVars, wrapVars, denied, dirLock, lockHolder, lockFd, dirData, dirTmp,
                   content, fd, ghostVars>>

\* get, line 73: if not os.path.exists(cache_file): return None
GetExists(p) ==
    /\ pc[p] = "get_exists"
    /\ IF dirData[Key(p)] = 0
       THEN /\ pc' = [pc EXCEPT ![p] = "done"]
            /\ res' = [res EXCEPT ![p] = Result(p, "none")]
            /\ op' = [op EXCEPT ![p] = NoOp]
            /\ lastSet' = LastSetAfter("get", Key(p), "none", NoEntry)
            /\ damage' = DamageAfter("get", Key(p), "none")
       ELSE /\ pc' = [pc EXCEPT ![p] = "lock_open"]
            /\ UNCHANGED <<res, op, ghostVars>>
    /\ UNCHANGED <<envVars, timer, dirLock, lockHolder, lockFd, dirData, dirTmp, content, fd, blk>>

\* _file_lock, lines 45-47: lock_file = open(lock_path, 'w'); start_time = time.time().
\* In a directory that does not exist open raises FileNotFoundError; lock_file
\* is still None, so the finally clause does nothing and the error leaves the
\* operation.
LockOpen(p) ==
    /\ pc[p] = "lock_open"
    /\ IF cacheDir
       THEN /\ LET i == IF dirLock[Key(p)] = 0 THEN FreshLock ELSE dirLock[Key(p)] IN
                /\ dirLock' = [dirLock EXCEPT ![Key(p)] = i]
                /\ lockFd' = [lockFd EXCEPT ![p] = i]
            /\ pc' = [pc EXCEPT ![p] = "lock_try"]
            /\ UNCHANGED <<op, res>>
       ELSE /\ res' = [res EXCEPT ![p] = Result(p, "FileNotFoundError")]
            /\ op' = [op EXCEPT ![p] = NoOp]
            /\ pc' = [pc EXCEPT ![p] = "done"]
            /\ UNCHANGED <<dirLock, lockFd>>
    /\ timer' = [timer EXCEPT ![p] = 0]
    /\ UNCHANGED <<envVars, lockHolder, dirData, dirTmp, content, fd, blk, ghostVars>>

\* Where the with-body of each operation begins.
Body(name) ==
    CASE name = "get" -> "get_read"
      [] name = "set" -> "set_open"
      [] OTHER -> "exists_test"

\* _file_lock, lines 50-51: flock(LOCK_EX | LOCK_NB) is granted.
LockAcquire(p) ==
    /\ pc[p] = "lock_try"
    /\ lockHolder[lockFd[p]] = 0
    /\ lockHolder' = [lockHolder EXCEPT ![lockFd[p]] = p]
    /\ timer' = [timer EXCEPT ![p] = 0]
    /\ pc' = [pc EXCEPT ![p] = Body(op[p].name)]
    /\ UNCHANGED <<envVars, op, res, dirLock, lockFd, dirData, dirTmp, content, fd, blk, ghostVars>>

\* LockBusy without the test of the elapsed time: the caller sleeps and retries.
LockBusyNoTimeout(p) ==
    /\ pc[p] = "lock_try"
    /\ lockHolder[lockFd[p]] # 0
    /\ pc' = [pc EXCEPT ![p] = "sleep"]
    /\ UNCHANGED <<envVars, op, res, timer, dirLock, lockHolder, lockFd, dirData, dirTmp, content, fd, blk, ghostVars>>

\* _file_lock, lines 52-58: EAGAIN; past lock_timeout raise TimeoutError,
\* otherwise go to sleep.
LockBusy(p) ==
    /\ pc[p] = "lock_try"
    /\ lockHolder[lockFd[p]] # 0
    /\ IF timer[p] > LockTimeout
       THEN /\ res' = [res EXCEPT ![p] = Result(p, "TimeoutError")]
            /\ pc' = [pc EXCEPT ![p] = "finally"]
            /\ timer' = [timer EXCEPT ![p] = 0]
       ELSE /\ pc' = [pc EXCEPT ![p] = "sleep"]
            /\ UNCHANGED <<res, timer>>
    /\ UNCHANGED <<envVars, op, dirLock, lockHolder, lockFd, dirData, dirTmp, content, fd, blk, ghostVars>>

\* _file_lock, line 58: time.sleep(0.1)
Sleep(p) ==
    /\ pc[p] = "sleep"
    /\ timer' = Advance(timer)
    /\ pc' = [pc EXCEPT ![p] = "lock_try"]
    /\ UNCHANGED <<envVars, op, res, dirLock, lockHolder, lockFd, dirData, dirTmp, content, fd, blk, ghostVars>>

\* Time passes while some caller polls and no caller takes a step.
Tick ==
    /\ \E p \in Procs : Polling(p)
    /\ timer' = Advance(timer)
    /\ timer' # timer
    /\ UNCHANGED <<envVars, pc, op, res, dirLock, lockHolder, lockFd, dirData, dirTmp, content, fd, blk, ghostVars>>

\* get, lines 78-80: open, read and deserialize. A missing file and a file
\* that may not be read (OSError) and a ValueError go to the handler; any
\* other error leaves the with-block.
GetRead(p) ==
    /\ pc[p] = "get_read"
    /\ LET i == dirData[Key(p)]
           out == IF i = 0 \/ Key(p) \in denied THEN "OSError"
                  ELSE DeserializeOutcome(content[i]) IN
        CASE out = "ok" ->
                /\ res' = [res EXCEPT ![p] = ResultEntry(p, deserialize(content[i]))]
                /\ pc' = [pc EXCEPT ![p] = "finally"]
          [] out \in {"ValueError", "OSError"} ->
                /\ pc' = [pc EXCEPT ![p] = "get_unlink"]
                /\ UNCHANGED res
          [] OTHER ->
                /\ res' = [res EXCEPT ![p] = Result(p, out)]
                /\ pc' = [pc EXCEPT ![p] = "finally"]
    /\ UNCHANGED <<envVars, op, timer, dirLock, lockHolder, lockFd, dirData, dirTmp, content, fd, blk, ghostVars>>

\* get, lines 82-86: os.unlink(cache_file), OSError ignored; return None
GetUnlink(p) ==
    /\ pc[p] = "get_unlink"
    /\ dirData' = [dirData EXCEPT ![Key(p)] = 0]
    /\ content' = Gc(content, dirData', dirTmp, fd)
    /\ denied' = denied \ {Key(p)}
    /\ res' = [res EXCEPT ![p] = Result(p, "none")]
    /\ pc' = [pc EXCEPT ![p] = "finally"]
    /\ UNCHANGED <<cfg, regVars, memVars, wrapVars, cacheDir, op, timer, dirLock, lockHolder, lockFd,
                   dirTmp, fd, blk, ghostVars>>

\* set, line 99: open(temp_file, "w") creates the file or truncates it.
SetOpen(p) ==
    /\ pc[p] = "set_open"
    /\ LET i == IF dirTmp[Key(p)] = 0 THEN FreshData ELSE dirTmp[Key(p)] IN
        /\ dirTmp' = [dirTmp EXCEPT ![Key(p)] = i]
        /\ fd' = [fd EXCEPT ![p] = i]
        /\ content' = [content EXCEPT ![i] = <<>>]
    /\ pc' = [pc EXCEPT ![p] = "set_write"]
    /\ UNCHANGED <<envVars, op, res, timer, dirLock, lockHolder, lockFd, dirData, blk, ghostVars>>

\* set, line 100: f.write(self.serialize(entry)). serialize raises on a payload
\* json cannot encode, and the with-block closes the file; otherwise the first
\* chunk reaches the file.
SetWrite(p) ==
    /\ pc[p] = "set_write"
    /\ IF Serializable(op[p].entry.data)
       THEN /\ content' = [content EXCEPT ![fd[p]] = WriteAt(@, 1, serialize(op[p].entry)[1])]
            /\ pc' = [pc EXCEPT ![p] = "set_flush"]
            /\ UNCHANGED <<res, fd>>
       ELSE /\ fd' = [fd EXCEPT ![p] = 0]
            /\ content' = Gc(content, dirData, dirTmp, fd')
            /\ res' = [res EXCEPT ![p] = Result(p, "ValueError")]
            /\ pc' = [pc EXCEPT ![p] = "set_cleanup"]
    /\ UNCHANGED <<envVars, op, timer, dirLock, lockHolder, lockFd, dirData, dirTmp, blk, ghostVars>>

\* set, line 100, leaving the with-block: the rest is flushed and the file closed.
SetFlush(p) ==
    /\ pc[p] = "set_flush"
    /\ fd' = [fd EXCEPT ![p] = 0]
    /\ content' = Gc([content EXCEPT ![fd[p]] = WriteAt(@, 2, serialize(op[p].entry)[2])],
                     dirData, dirTmp, fd')
    /\ pc' = [pc EXCEPT ![p] = "set_replace"]
    /\ UNCHANGED <<envVars, op, res, timer, dirLock, lockHolder, lockFd, dirData, dirTmp, blk, ghostVars>>

\* set, line 102: os.replace(temp_file, cache_file)
SetReplace(p) ==
    /\ pc[p] = "set_replace"
    /\ IF dirTmp[Key(p)] = 0
       THEN /\ res' = [res EXCEPT ![p] = Result(p, "OSError")]
            /\ UNCHANGED <<dirData, dirTmp, content, denied>>
       ELSE /\ dirData' = [dirData EXCEPT ![Key(p)] = dirTmp[Key(p)]]
            /\ dirTmp' = [dirTmp EXCEPT ![Key(p)] = 0]
            /\ content' = Gc(content, dirData', dirTmp', fd)
            /\ denied' = denied \ {Key(p)}
            /\ res' = [res EXCEPT ![p] = Result(p, "ok")]
    /\ pc' = [pc EXCEPT ![p] = "set_cleanup"]
    /\ UNCHANGED <<cfg, regVars, memVars, wrapVars, cacheDir, op, timer, dirLock, lockHolder, lockFd, fd,
                   blk, ghostVars>>

\* set, line 100: f.write raises OSError (the disk is full) after none or a
\* part of the text has reached the file; the with-block closes the file.
SetWriteFails(p) ==
    /\ pc[p] = "set_write"
    /\ Serializable(op[p].entry.data)
    /\ \E part \in {<<>>, SubSeq(serialize(op[p].entry), 1, 1)} :
        content' = [content EXCEPT ![fd[p]] = part]
    /\ fd' = [fd EXCEPT ![p] = 0]
    /\ res' = [res EXCEPT ![p] = Result(p, "OSError")]
    /\ pc' = [pc EXCEPT ![p] = "set_cleanup"]
    /\ UNCHANGED <<envVars, op, timer, dirLock, lockHolder, lockFd, dirData, dirTmp, blk, ghostVars>>

\* A set whose finally clause leaves the temporary file behind.
SetCleanupSkipped(p) ==
    /\ pc[p] = "set_cleanup"
    /\ pc' = [pc EXCEPT ![p] = "finally"]
    /\ UNCHANGED <<envVars, op, res, timer, dirLock, lockHolder, lockFd, dirData, dirTmp,
                   content, fd, blk, ghostVars>>

\* set, lines 103-107: finally os.unlink(temp_file), OSError ignored
SetCleanup(p) ==
    /\ pc[p] = "set_cleanup"
    /\ dirTmp' = [dirTmp EXCEPT ![Key(p)] = 0]
    /\ content' = Gc(content, dirData, dirTmp', fd)
    /\ pc' = [pc EXCEPT ![p] = "finally"]
    /\ UNCHANGED <<envVars, op, res, timer, dirLock, lockHolder, lockFd, dirData, fd, blk, ghostVars>>

\* exists, line 114: return os.path.exists(cache_file)
ExistsTest(p) ==
    /\ pc[p] = "exists_test"
    /\ res' = [res EXCEPT ![p] = ResultBool(p, dirData[Key(p)] # 0)]
    /\ pc' = [pc EXCEPT ![p] = "finally"]
    /\ UNCHANGED <<envVars, op, timer, dirLock, lockHolder, lockFd, dirData, dirTmp, content, fd, blk, ghostVars>>

\* Finally as it would be without try/finally: an operation that raised leaves
\* _file_lock with its lock file still open and locked.
FinallyOnSuccess(p) ==
    /\ pc[p] = "finally"
    /\ lockHolder' = [i \in LockInodes |->
                        IF i = lockFd[p] /\ lockHolder[i] = p /\ res[p].tag \notin Raised
                        THEN 0 ELSE lockHolder[i]]
    /\ lockFd' = [lockFd EXCEPT ![p] = IF res[p].tag \in Raised THEN @ ELSE 0]
    /\ blk' = [q \in Procs |-> blk[q] \ {p}]
    /\ timer' = [timer EXCEPT ![p] = 0]
    /\ pc' = [pc EXCEPT ![p] = "lock_unlink"]
    /\ UNCHANGED <<envVars, op, res, dirLock, dirData, dirTmp, content, fd, ghostVars>>

\* _file_lock, lines 60-63: flock(LOCK_UN) and lock_file.close()
Finally(p) ==
    /\ pc[p] = "finally"
    /\ lockHolder' = [i \in LockInodes |->
                        IF i = lockFd[p] /\ lockHolder[i] = p THEN 0 ELSE lockHolder[i]]
    /\ lockFd' = [lockFd EXCEPT ![p] = 0]
    /\ blk' = [q \in Procs |-> blk[q] \ {p}]
    /\ timer' = [timer EXCEPT ![p] = 0]
    /\ pc' = [pc EXCEPT ![p] = "lock_unlink"]
    /\ UNCHANGED <<envVars, op, res, dirLock, dirData, dirTmp, content, fd, ghostVars>>

\* LockUnlink without the unlink: the marker stays behind.
LockUnlinkSkipped(p) ==
    /\ pc[p] = "lock_unlink"
    /\ pc' = [pc EXCEPT ![p] = "done"]
    /\ lastSet' = LastSetAfter(op[p].name, Key(p), res[p].tag, op[p].entry)
    /\ damage' = DamageAfter(op[p].name, Key(p), res[p].tag)
    /\ op' = [op EXCEPT ![p] = NoOp]
    /\ UNCHANGED <<envVars, res, timer, dirLock, lockHolder, lockFd, dirData, dirTmp, content, fd, blk>>

\* _file_lock, lines 64-67: os.unlink(lock_path), OSError ignored; then the
\* operation returns its value or raises its error.
LockUnlink(p) ==
    /\ pc[p] = "lock_unlink"
    /\ dirLock' = [dirLock EXCEPT ![Key(p)] = 0]
    /\ pc' = [pc EXCEPT ![p] = "done"]
    /\ lastSet' = LastSetAfter(op[p].name, Key(p), res[p].tag, op[p].entry)
    /\ damage' = DamageAfter(op[p].name, Key(p), res[p].tag)
    /\ op' = [op EXCEPT ![p] = NoOp]
    /\ UNCHANGED <<envVars, res, timer, lockHolder, lockFd, dirData, dirTmp, content, fd, blk>>

\* The entry file of k is damaged from outside while no operation runs: it no
\* longer parses (overwritten with other bytes, emptied, or cut short).
Corrupt(k) ==
    /\ cfg.backend = "file"
    /\ Sequential
    /\ \A p \in Procs : pc[p] = "done"
    /\ dirData[k] # 0
    /\ WellFormed(content[dirData[k]])
    /\ \E text \in {Garbage, <<>>, SubSeq(content[dirData[k]], 1, 1)} :
        content' = [content EXCEPT ![dirData[k]] = text]
    /\ damage' = [damage EXCEPT ![k] = "corrupt"]
    /\ UNCHANGED <<envVars, pc, op, res, timer, dirLock, lockHolder, lockFd, dirData, dirTmp, fd, blk, lastSet>>

\* The directory cache_dir is deleted from outside, with everything in it,
\* while no operation runs.
DeleteDir ==
    /\ cfg.backend = "file"
    /\ Sequential
    /\ \A p \in Procs : pc[p] = "done"
    /\ cacheDir
    /\ cacheDir' = FALSE
    /\ denied' = {}
    /\ dirData' = [k \in Keys |-> 0]
    /\ dirTmp' = [k \in Keys |-> 0]
    /\ dirLock' = [k \in Keys |-> 0]
    /\ content' = Gc(content, dirData', dirTmp', fd)
    /\ UNCHANGED <<cfg, regVars, memVars, wrapVars, pc, op, res, timer, lockHolder, lockFd, fd, blk,
                   ghostVars>>

\* The entry file of k loses its read permission (chmod from outside) while
\* no operation runs; the directory stays writable.
Deny(k) ==
    /\ cfg.backend = "file"
    /\ Sequential
    /\ \A p \in Procs : pc[p] = "done"
    /\ dirData[k] # 0
    /\ k \notin denied
    /\ denied' = denied \cup {k}
    /\ UNCHANGED <<cfg, regVars, memVars, wrapVars, cacheDir, pc, op, res, timer, dirLock, lockHolder,
                   lockFd, dirData, dirTmp, content, fd, blk, ghostVars>>

----------------------------------------------------------------------------
(* InMemoryCache: get, set, exists on a dict.                              *)

\* in_memory_cache.py, lines 11-13: return self._cache.get(key)
MemGet(k) ==
    /\ cfg.backend = "memory"
    /\ memRes' = IF mem[k] = NoEntry
                 THEN Outcome("get", k, "none", NoEntry, FALSE)
                 ELSE Outcome("get", k, "entry", mem[k], FALSE)
    /\ UNCHANGED <<cfg, regVars, fileVars, wrapVars, mem, memLast>>

\* in_memory_cache.py, lines 15-17: self._cache[key] = entry
MemSet(k, e) ==
    /\ cfg.backend = "memory"
    /\ mem' = [mem EXCEPT ![k] = e]
    /\ memRes' = Outcome("set", k, "ok", NoEntry, FALSE)
    /\ memLast' = [memLast EXCEPT ![k] = e]
    /\ UNCHANGED <<cfg, regVars, fileVars, wrapVars>>

\* in_memory_cache.py, lines 19-21: return key in self._cache
MemExists(k) ==
    /\ cfg.backend = "memory"
    /\ memRes' = Outcome("exists", k, "bool", NoEntry, mem[k] # NoEntry)
    /\ UNCHANGED <<cfg, regVars, fileVars, wrapVars, mem, memLast>>

----------------------------------------------------------------------------
(* cache_decorator: the wrapper around a memoized function. The backend    *)
(* operations it calls run to completion within one step.                  *)

\* A get that reports every entry it cannot deserialize as absent.
FileLookup_as_miss(k) ==
    IF dirData[k] = 0 \/ DeserializeOutcome(content[dirData[k]]) # "ok"
    THEN [tag |-> "none", entry |-> NoEntry]
    ELSE [tag |-> "entry", entry |-> deserialize(content[dirData[k]])]

\* FileCache.get run to its end by a lone caller: the result, and the entry
\* files it leaves (a file that does not parse is deleted).
FileLookup(k) ==
    IF dirData[k] = 0 THEN [tag |-> "none", entry |-> NoEntry]
    ELSE LET out == DeserializeOutcome(content[dirData[k]]) IN
         CASE out = "ok" -> [tag |-> "entry", entry |-> deserialize(content[dirData[k]])]
           [] out = "ValueError" -> [tag |-> "none", entry |-> NoEntry]
           [] OTHER -> [tag |-> out, entry |-> NoEntry]

DirAfterGet(k) ==
    IF dirData[k] # 0 /\ ~WellFormed(content[dirData[k]])
    THEN [dirData EXCEPT ![k] = 0] ELSE dirData

\* A set that leaves an entry file that is already there as it is.
DirAfterSet_if_absent(k) ==
    IF dirData[k] # 0 THEN dirData ELSE [dirData EXCEPT ![k] = FreshData]

\* FileCache.set run to its end by a lone caller: the temporary file, holding
\* the serialized entry, has replaced the entry file.
DirAfterSet(k) == [dirData EXCEPT ![k] = FreshData]

ContentAfterSet(k, e) ==
    Gc([content EXCEPT ![FreshData] = serialize(e)], DirAfterSet(k), dirTmp, fd)

\* InMemoryCache.get
MemLookup(k) ==
    IF mem[k] = NoEntry THEN [tag |-> "none", entry |-> NoEntry]
    ELSE [tag |-> "entry", entry |-> mem[k]]

\* cache_instance.get on the backend of the run.
Lookup(k) == IF cfg.backend = "memory" THEN MemLookup(k) ELSE FileLookup(k)

\* Argument values: an int, the instance number id of a class (the id is
\* what id(obj) tells apart), or a dict with int values, its items in the
\* order of insertion. NoObj stands for None.
IntVal(n) == [kind |-> "int", cls |-> "builtins.int", id |-> n, items |-> <<>>]
Obj(c, i) == [kind |-> "obj", cls |-> c, id |-> i, items |-> <<>>]
Mapping(items) == [kind |-> "dict", cls |-> "builtins.dict", id |-> 0, items |-> items]
NoObj == [kind |-> "none", cls |-> "", id |-> 0, items |-> <<>>]

\* A call as the wrapper receives it: the function (its __qualname__ and the
\* names of its parameters), args, and kwargs in the order of the call site.
PlainCall(a) ==
    [func |-> "f", params |-> <<"a">>, args |-> <<IntVal(a)>>, kwargs |-> <<>>]

\* f(a=.., b=..), the keyword arguments written in this order or in the other.
KeywordCall(a, b, order) ==
    [func |-> "f", params |-> <<"a", "b">>, args |-> <<>>,
     kwargs |-> IF order = "ab"
                THEN << [name |-> "a", value |-> a], [name |-> "b", value |-> b] >>
                ELSE << [name |-> "b", value |-> b], [name |-> "a", value |-> a] >>]

\* i.m(x, y), i an instance of C, written m(x, y), m(x, y=y) or m(x=x, y=y).
MethodCall(i, x, y, style) ==
    [func |-> "C.m", params |-> <<"self", "x", "y">>,
     args |-> CASE style = "pos" -> <<Obj("C", i), x, y>>
                [] style = "kw" -> <<Obj("C", i), x>>
                [] OTHER -> <<Obj("C", i)>>,
     kwargs |-> CASE style = "pos" -> <<>>
                  [] style = "kw" -> << [name |-> "y", value |-> y] >>
                  [] OTHER -> << [name |-> "x", value |-> x], [name |-> "y", value |-> y] >>]

\* _find_bound_entity: the first argument, if the first parameter is named self.
_find_bound_entity(call) ==
    IF Len(call.params) > 0 /\ Len(call.args) > 0 /\ call.params[1] = "self"
    THEN call.args[1] ELSE NoObj

\* wrapper, lines 451-456: metadata_args = args[start_index:], start_index
\* being 1 if there is a bound entity and the decorator was given ignore_self.
metadata_args(call, settings, ignore_self) ==
    LET start_index == IF _find_bound_entity(call) # NoObj /\ ignore_self THEN 1 ELSE 0 IN
    SubSeq(call.args, start_index + 1, Len(call.args))

\* json.dumps of the recorded arguments: an instance of a plain class is not
\* JSON serializable.
SerializableArgs(args) == \A i \in DOMAIN args : args[i].kind = "int"

\* FuncCall as the wrapper builds it, after __post_init__.
FuncCall(call, settings, ignore_self) ==
    [func |-> call.func, params |-> call.params, args |-> call.args, kwargs |-> call.kwargs,
     key_parameters |-> settings.key_parameters,
     ignore_self |-> IF ~ignore_self THEN settings.ignore_self ELSE ignore_self,
     bound_entity |-> _find_bound_entity(call)]

\* The keys of the dicts passed as arguments, in the order of str.
KeyOrder == <<"p", "q">>

\* sorted(...) on the (key, value) pairs of a dict: the pairs by ascending key.
sorted(items) ==
    LET names == {items[i].name : i \in DOMAIN items}
        ordered == SelectSeq(KeyOrder, LAMBDA n : n \in names) IN
    [j \in DOMAIN ordered |-> items[CHOOSE i \in DOMAIN items : items[i].name = ordered[j]]]

\* A canonicalization that never includes the id.
make_hashable_by_class(obj, include_id) ==
    CASE obj.kind = "int" -> [t |-> "int", text |-> "", n |-> obj.id, items |-> <<>>]
      [] obj.kind = "dict" -> [t |-> "tuple", text |-> "", n |-> 0, items |-> sorted(obj.items)]
      [] OTHER -> [t |-> "str", text |-> obj.cls, n |-> 0, items |-> <<>>]

\* A canonicalization that takes the id of a copy of the instance, which
\* differs from one generation to the next.
make_hashable_of_copy(obj, include_id) ==
    CASE obj.kind = "int" -> [t |-> "int", text |-> "", n |-> obj.id, items |-> <<>>]
      [] obj.kind = "dict" -> [t |-> "tuple", text |-> "", n |-> 0, items |-> sorted(obj.items)]
      [] OTHER -> [t |-> "str", text |-> obj.cls, items |-> <<>>,
                   n |-> IF include_id THEN obj.id + Cardinality(keyOf[1] \cup keyOf[2]) ELSE 0]

\* make_hashable: an int passes; a dict becomes the tuple of its sorted
\* (key, value) pairs; an instance becomes the string "<class>#<id>", or
\* "<class>" alone (n = 0) without include_id.
make_hashable(obj, include_id) ==
    CASE obj.kind = "int" -> [t |-> "int", text |-> "", n |-> obj.id, items |-> <<>>]
      [] obj.kind = "dict" -> [t |-> "tuple", text |-> "", n |-> 0, items |-> sorted(obj.items)]
      [] OTHER -> [t |-> "str", text |-> obj.cls, items |-> <<>>,
                   n |-> IF include_id THEN obj.id ELSE 0]

\* The elements of a set of indices, in ascending order.
RECURSIVE Ascending(_)
Ascending(S) ==
    IF S = {} THEN <<>> ELSE <<Min(S)>> \o Ascending(S \ {Min(S)})

KwValue(kwargs, name) == kwargs[CHOOSE i \in DOMAIN kwargs : kwargs[i].name = name].value

\* A key generator that takes every parameter to be listed.
ListedAll(arg_names, key_parameters) == DOMAIN arg_names

\* _generate_key_content, line 312: if arg_name in key_parameters
Listed(arg_names, key_parameters) ==
    {i \in DOMAIN arg_names : arg_names[i] \in key_parameters}

\* _generate_key_content. str(tuple) and str(dict) are kept as the sequence
\* of canonical values and the sequence of (name, canonical value) items, in
\* the order in which Python prints them.
_generate_key_content(func_call) ==
    LET start_index == IF func_call.bound_entity # NoObj /\ func_call.ignore_self THEN 1 ELSE 0
        args == SubSeq(func_call.args, start_index + 1, Len(func_call.args))
        kwargs == func_call.kwargs
        include_id == ~func_call.ignore_self
        arg_names == SubSeq(func_call.params, start_index + 1, Len(func_call.params))
        listed == Listed(arg_names, func_call.key_parameters)
        positional == Ascending({i \in listed : i <= Len(args)})
        named == Ascending({i \in listed :
                              /\ i > Len(args)
                              /\ \E j \in DOMAIN kwargs : kwargs[j].name = arg_names[i]})
    IN
    IF func_call.key_parameters # {}
    THEN [func_name |-> func_call.func,
          args |-> [j \in DOMAIN positional |-> make_hashable(args[positional[j]], include_id)],
          kwargs |-> [j \in DOMAIN named |->
                        [name |-> arg_names[named[j]],
                         value |-> make_hashable(KwValue(kwargs, arg_names[named[j]]),
                                                 include_id)]]]
    ELSE [func_name |-> func_call.func,
          args |-> [j \in DOMAIN args |-> make_hashable(args[j], include_id)],
          kwargs |-> [j \in DOMAIN kwargs |->
                        [name |-> kwargs[j].name,
                         value |-> make_hashable(kwargs[j].value, include_id)]]]

\* _generate_cache_key: the function's name and the first ten hex digits of
\* the SHA-256 of str(key_content). Different texts are taken to have
\* different digests, so the digest is kept as the content it was computed of.
_generate_cache_key(func_call) ==
    LET key_content == _generate_key_content(func_call) IN
    [func_name |-> key_content.func_name, key_hash |-> key_content]

\* The FuncCall and the key of the a-th call of the run.
FuncCallOf(a) == FuncCall(cfg.calls[a], cfg.settings, cfg.ignore_self)

KeyOf(a) == _generate_cache_key(FuncCallOf(a))

\* Where the backend keeps the entry of a key: keys are numbered by the first
\* call of the run that produces them.
Slot(key) == Min({a \in cfg.keys : KeyOf(a) = key})

\* The wrapped function: every execution returns a new object of the type
\* the run is about.
func(n) == Pay(cfg.resultType, Num(n))

\* CacheSettings.expiration: None, a number of seconds, or a string made of
\* a number and a unit ("1h").
NoExpiration == [kind |-> "none", number |-> 0, unit |-> ""]
Seconds(n) == [kind |-> "int", number |-> n, unit |-> ""]
Text(n, unit) == [kind |-> "str", number |-> n, unit |-> unit]

\* The clock counts hours.
HourSeconds == 3600
DayHours == 24

\* timedelta(seconds=n), in instants of the clock.
timedelta(seconds) == (seconds * HourTicks) \div HourSeconds

\* parse_date_string, lines 92-99: an expression that is no relative
\* pattern, no special case and no date dateutil can parse raises ValueError.
Rejected(date_string) == date_string.unit \notin {"h", "d"}

\* parse_date_string(date_string, reference_time) on a relative expression:
\* the reference time plus the number of hours or days.
parse_date_string(date_string, reference_time) ==
    CASE date_string.unit = "h" -> reference_time + date_string.number * HourTicks
      [] date_string.unit = "d" -> reference_time + date_string.number * DayHours * HourTicks

\* CacheSettings(), every field at its default.
CacheSettings ==
    [expiration |-> NoExpiration, time_check |-> "CREATION", cache_only |-> FALSE,
     key_parameters |-> {}, ignore_self |-> FALSE,
     return_metadata_as_member |-> TRUE, return_metadata_on_primitives |-> FALSE]

\* An expiration policy that never lets an entry expire.
FreshForever(reference_time, current_time, settings) == TRUE

\* is_cache_valid, lines 401-409
Fresh(reference_time, current_time, settings) ==
    \/ reference_time = NoTime
    \/ current_time < (IF settings.expiration.kind = "str"
                       THEN parse_date_string(settings.expiration, reference_time)
                       ELSE reference_time + timedelta(settings.expiration.number))

\* An expiration policy without the test for "no expiration configured".
is_cache_valid_unconditional(metadata, current_time, settings) ==
    CASE settings.time_check = "EXPIRES_AT" ->
            metadata.expires_at = NoTime \/ current_time < metadata.expires_at
      [] OTHER -> Fresh(metadata.creation_timestamp, current_time, settings)

\* An expiration policy that measures from the creation instant in every mode.
is_cache_valid_from_creation(metadata, current_time, settings) ==
    settings.expiration = NoExpiration
        \/ Fresh(metadata.creation_timestamp, current_time, settings)

\* An expiration policy that takes a null last-update instant as the reference.
is_cache_valid_no_fallback(metadata, current_time, settings) ==
    IF settings.expiration = NoExpiration THEN TRUE
    ELSE CASE settings.time_check = "CREATION" ->
                Fresh(metadata.creation_timestamp, current_time, settings)
           [] settings.time_check = "LAST_UPDATE" ->
                Fresh(metadata.last_update_timestamp, current_time, settings)
           [] OTHER ->
                metadata.expires_at = NoTime \/ current_time < metadata.expires_at

\* is_cache_valid raises ValueError: parse_date_string is reached, lines
\* 403-405, with an expression it rejects.
is_cache_valid_raises(metadata, settings) ==
    /\ settings.expiration.kind = "str"
    /\ Rejected(settings.expiration)
    /\ \/ settings.time_check = "CREATION" /\ metadata.creation_timestamp # NoTime
       \/ /\ settings.time_check = "LAST_UPDATE"
          /\ (metadata.last_update_timestamp # NoTime \/ metadata.creation_timestamp # NoTime)

is_cache_valid(metadata, current_time, settings) ==
    IF settings.expiration = NoExpiration THEN TRUE
    ELSE CASE settings.time_check = "CREATION" ->
                Fresh(metadata.creation_timestamp, current_time, settings)
           [] settings.time_check = "LAST_UPDATE" ->
                Fresh(IF metadata.last_update_timestamp # NoTime
                      THEN metadata.last_update_timestamp
                      ELSE metadata.creation_timestamp, current_time, settings)
           [] OTHER ->
                metadata.expires_at = NoTime \/ current_time < metadata.expires_at

\* "builtins" in data_type
IsBuiltin(data_type) == data_type \in {"builtins.int", "builtins.str", "builtins.dict"}

\* setattr(data, "_metadata", ...) works on an instance with a __dict__.
HasDict(data) == data.type \in {"SampleData", "LocalModel", "object"}

\* _return_obj: the value handed to the caller, with the metadata attached to
\* it (NoMeta if none), or the error setattr raises.
_return_obj(cache_entry, settings) ==
    LET raw == [tag |-> "value", data |-> cache_entry.data, meta |-> NoMeta]
        with == [tag |-> "value", data |-> cache_entry.data, meta |-> cache_entry.metadata] IN
    CASE ~settings.return_metadata_as_member -> raw
      [] IsBuiltin(cache_entry.metadata.data_type) ->
            IF settings.return_metadata_on_primitives /\ cache_entry.data.type = "dict"
            THEN with ELSE raw
      [] cache_entry.data.type = "dict" \/ HasDict(cache_entry.data) -> with
      [] OTHER -> [tag |-> "AttributeError", data |-> NoPay, meta |-> NoMeta]

\* What the backend holds: the stored object (in-memory backend) and the text
\* of the entry file (file backend) of every key.
Stored ==
    [k \in Keys |-> [entry |-> mem[k],
                     text |-> IF dirData[k] = 0 THEN <<>> ELSE content[dirData[k]]]]

EmptyStore == [k \in Keys |-> [entry |-> NoEntry, text |-> <<>>]]

\* A call in progress. found: what cache_instance.get gave ("none", "expired",
\* "valid"); outcome: how the wrapped function ended ("none" while it has not
\* run, "return", "fallback" for an error with save_var, "error"); set:
\* cache_instance.set was called; at: current_time of the new entry;
\* before: the backend when the call began; prev: how the wrapped function
\* ended in the caller's previous call, if that was a call with the same
\* argument.
NoCall ==
    [arg |-> 1, callno |-> 0, invoked |-> FALSE, entry |-> NoEntry,
     found |-> "none", outcome |-> "none", set |-> FALSE, at |-> NoTime,
     before |-> EmptyStore, prev |-> "none"]

\* What a call returned ("value") or raised, whether it executed the wrapped
\* function, and the from_cache flag of the entry it worked with.
WOutcome(call, tag, data, meta, from_cache) ==
    [arg |-> call.arg, callno |-> call.callno, invoked |-> call.invoked,
     found |-> call.found, outcome |-> call.outcome, set |-> call.set,
     at |-> call.at, before |-> call.before, prev |-> call.prev,
     cache_only |-> cfg.settings.cache_only,
     tag |-> tag, data |-> data, meta |-> meta, from_cache |-> from_cache]

\* A call wrapper(a) begins.
WStart(p) ==
    /\ p \in cfg.callers
    /\ wpc[p] = "idle"
    /\ \E a \in cfg.keys :
        /\ ncalls[a] < MaxCalls
        /\ ncalls' = [ncalls EXCEPT ![a] = @ + 1]
        /\ wcall' = [wcall EXCEPT ![p] =
                        [NoCall EXCEPT !.arg = a, !.callno = ncalls[a] + 1,
                                       !.before = Stored,
                                       !.prev = IF ret[p].arg = a /\ ret[p].tag # "init"
                                                THEN ret[p].outcome ELSE "none"]]
        /\ ret' = [ret EXCEPT ![p] = WOutcome(wcall'[p], "running", NoPay, NoMeta, FALSE)]
    /\ wpc' = [wpc EXCEPT ![p] = "get"]
    /\ UNCHANGED <<cfg, regVars, backendVars, dirData, content, mem, runs, first, now, keyOf, verdicts>>

\* A wrapper that does not look at cache_only.
AfterGetExecuting(tag, hit, settings) ==
    CASE tag \in Raised -> tag
      [] hit -> "return"
      [] OTHER -> "execute"

\* A wrapper that executes the function whatever get gave.
AfterGetRecomputing(tag, hit, settings) ==
    CASE tag \in Raised -> tag
      [] settings.cache_only /\ ~hit -> "CacheMissError"
      [] OTHER -> "execute"

\* A wrapper that returns whatever entry get gave, valid or not.
AfterGetStale(tag, hit, settings) ==
    CASE tag \in Raised -> tag
      [] tag = "entry" -> "return"
      [] settings.cache_only -> "CacheMissError"
      [] OTHER -> "execute"

\* wrapper, lines 470-482: where the call goes after cache_instance.get: the
\* error get raised, the valid entry is returned, cache_only raises
\* CacheMissError, or the wrapped function is executed.
AfterGet(tag, hit, settings) ==
    CASE tag \in Raised -> tag
      [] hit -> "return"
      [] settings.cache_only -> "CacheMissError"
      [] OTHER -> "execute"

\* wrapper, lines 470-480: cache_instance.get; a valid entry is marked
\* from_cache (the in-memory backend returned the stored object itself);
\* otherwise cache_only raises CacheMissError.
WGet(p) ==
    /\ wpc[p] = "get"
    /\ LET k == Slot(KeyOf(wcall[p].arg))
           got == Lookup(k)
           raises == got.tag = "entry" /\ is_cache_valid_raises(got.entry.metadata, cfg.settings)
           hit == got.tag = "entry" /\ ~raises
                    /\ is_cache_valid(got.entry.metadata, now, cfg.settings)
           e == [got.entry EXCEPT !.metadata.from_cache = TRUE] IN
        /\ dirData' = IF cfg.backend = "file" THEN DirAfterGet(k) ELSE dirData
        /\ content' = Gc(content, dirData', dirTmp, fd)
        /\ mem' = IF cfg.backend = "memory" /\ hit THEN [mem EXCEPT ![k] = e] ELSE mem
        /\ keyOf' = [keyOf EXCEPT ![wcall[p].arg] = @ \cup {KeyOf(wcall[p].arg)}]
        /\ LET then == IF raises THEN "ValueError" ELSE AfterGet(got.tag, hit, cfg.settings)
               call == [wcall[p] EXCEPT !.entry = IF hit THEN e ELSE NoEntry,
                                        !.found = IF hit THEN "valid"
                                                  ELSE IF got.tag = "entry" THEN "expired"
                                                  ELSE "none"] IN
            IF then \in {"return", "execute"}
            THEN /\ wpc' = [wpc EXCEPT ![p] = then]
                 /\ wcall' = [wcall EXCEPT ![p] = call]
                 /\ UNCHANGED ret
            ELSE /\ wpc' = [wpc EXCEPT ![p] = "idle"]
                 /\ wcall' = [wcall EXCEPT ![p] = NoCall]
                 /\ ret' = [ret EXCEPT ![p] = WOutcome(call, then, NoPay, NoMeta, FALSE)]
    /\ UNCHANGED <<cfg, regVars, backendVars, runs, ncalls, first, now, verdicts>>

\* A wrapper that takes every error to carry a result.
YieldsAlways(o) == TRUE

\* wrapper, lines 485-489: the wrapped function gave a result: it returned, or
\* the error it raised has the attribute save_var.
Yields(o) == o \in {"return", "fallback"}

\* wrapper, lines 484-491: result = func(*args, **kwargs). The function
\* returns, or raises an error that carries save_var (which becomes the
\* result), or raises any other error, which is raised again at once.
WExecute(p) ==
    /\ wpc[p] = "execute"
    /\ runs' = runs + 1
    /\ \E o \in cfg.outcomes :
        LET call == [wcall[p] EXCEPT !.invoked = TRUE, !.outcome = o,
                                     !.entry = IF Yields(o)
                                               THEN CacheEntry(NoMeta, func(runs + 1))
                                               ELSE NoEntry] IN
        IF ~Yields(o)
        THEN /\ wpc' = [wpc EXCEPT ![p] = "idle"]
             /\ wcall' = [wcall EXCEPT ![p] = NoCall]
             /\ ret' = [ret EXCEPT ![p] = WOutcome(call, "FuncError", NoPay, NoMeta, FALSE)]
        ELSE /\ wpc' = [wpc EXCEPT ![p] = "persist"]
             /\ wcall' = [wcall EXCEPT ![p] = call]
             /\ UNCHANGED ret
    /\ UNCHANGED <<cfg, regVars, backendVars, dirData, content, mem, ncalls, first, now, keyOf, verdicts>>

\* wrapper, lines 493-513: the metadata of the new entry, whose expires_at is
\* not computed from an expression parse_date_string rejects, and
\* cache_instance.set.
WPersist(p) ==
    /\ wpc[p] = "persist"
    /\ IF cfg.settings.expiration.kind = "str" /\ Rejected(cfg.settings.expiration)
       THEN /\ wpc' = [wpc EXCEPT ![p] = "idle"]
            /\ wcall' = [wcall EXCEPT ![p] = NoCall]
            /\ ret' = [ret EXCEPT ![p] = WOutcome(wcall[p], "ValueError", NoPay, NoMeta, FALSE)]
            /\ UNCHANGED <<mem, keyOf, dirData, content>>
       ELSE LET k == Slot(KeyOf(wcall[p].arg))
               result == wcall[p].entry.data
               metadata == ModelMetadata(now, now,
                               IF cfg.settings.expiration.kind = "str"
                               THEN parse_date_string(cfg.settings.expiration, now)
                               ELSE IF cfg.settings.expiration.number # 0
                               THEN now + timedelta(cfg.settings.expiration.number)
                               ELSE NoTime,
                               metadata_args(cfg.calls[wcall[p].arg], cfg.settings, cfg.ignore_self),
                               FALSE, _qualified_name(result))
               cache_entry == CacheEntry(metadata, result)
               stored == cfg.backend = "memory"
                             \/ (Serializable(result) /\ SerializableArgs(metadata.args))
               call == [wcall[p] EXCEPT !.entry = cache_entry, !.set = TRUE, !.at = now] IN
            /\ mem' = IF cfg.backend = "memory" THEN [mem EXCEPT ![k] = cache_entry] ELSE mem
            /\ keyOf' = [keyOf EXCEPT ![wcall[p].arg] = @ \cup {KeyOf(wcall[p].arg)}]
            /\ dirData' = IF cfg.backend = "file" /\ stored THEN DirAfterSet(k) ELSE dirData
            /\ content' = IF cfg.backend = "file" /\ stored THEN ContentAfterSet(k, cache_entry)
                          ELSE content
            /\ IF stored
               THEN /\ wpc' = [wpc EXCEPT ![p] = IF wcall[p].outcome = "fallback"
                                                 THEN "raise" ELSE "return"]
                    /\ wcall' = [wcall EXCEPT ![p] = call]
                    /\ UNCHANGED ret
               ELSE /\ wpc' = [wpc EXCEPT ![p] = "idle"]
                    /\ wcall' = [wcall EXCEPT ![p] = NoCall]
                    /\ ret' = [ret EXCEPT ![p] = WOutcome(call, "ValueError", NoPay, NoMeta, FALSE)]
    /\ UNCHANGED <<cfg, regVars, backendVars, runs, ncalls, first, now, verdicts>>

\* wrapper, lines 515-517: if exception: setattr(result, "_metadata", metadata)
\* and raise exception. setattr raises AttributeError on a result without a
\* __dict__.
WRaise(p) ==
    /\ wpc[p] = "raise"
    /\ ret' = [ret EXCEPT ![p] =
                IF HasDict(wcall[p].entry.data)
                THEN WOutcome(wcall[p], "FuncError", wcall[p].entry.data,
                              wcall[p].entry.metadata, FALSE)
                ELSE WOutcome(wcall[p], "AttributeError", NoPay, NoMeta, FALSE)]
    /\ wpc' = [wpc EXCEPT ![p] = "idle"]
    /\ wcall' = [wcall EXCEPT ![p] = NoCall]
    /\ UNCHANGED <<cfg, regVars, backendVars, dirData, content, mem, runs, ncalls, first, now, keyOf, verdicts>>

\* wrapper, lines 475 and 518: return _return_obj(cache_entry, settings)
WReturn(p) ==
    /\ wpc[p] = "return"
    /\ LET r == _return_obj(wcall[p].entry, cfg.settings) IN
        /\ ret' = [ret EXCEPT ![p] = WOutcome(wcall[p], r.tag, r.data, r.meta,
                                              wcall[p].entry.metadata.from_cache)]
        /\ first' = IF wcall[p].callno = 1 /\ r.tag = "value"
                    THEN [first EXCEPT ![wcall[p].arg] = r.data] ELSE first
    /\ wpc' = [wpc EXCEPT ![p] = "idle"]
    /\ wcall' = [wcall EXCEPT ![p] = NoCall]
    /\ UNCHANGED <<cfg, regVars, backendVars, dirData, content, mem, runs, ncalls, now, keyOf, verdicts>>

\* file_cache.py, lines 159-160 (cache_settings.cache_only = cache_only): the
\* store that earlier calls filled is used in cache-only mode from now on.
CacheOnlyOn ==
    /\ cfg.reconfigure
    /\ ~cfg.settings.cache_only
    /\ \A p \in Procs : wpc[p] = "idle"
    /\ cfg' = [cfg EXCEPT !.settings.cache_only = TRUE]
    /\ UNCHANGED <<fileVars, memVars, wrapVars, regVars>>

\* BaseCache._generate_cache_key(func_call), called for the a-th call of the run.
GenerateKey(a) ==
    /\ a \in cfg.keys
    /\ keyOf' = [keyOf EXCEPT ![a] = @ \cup {KeyOf(a)}]
    /\ UNCHANGED <<cfg, regVars, fileVars, memVars, wpc, wcall, ret, runs, ncalls, first, now, verdicts>>

\* is_cache_valid(entry.metadata, now, settings) on the entry of the run.
Validate ==
    /\ \E e \in cfg.entries :
        verdicts' = verdicts \cup {[at |-> now, valid |-> is_cache_valid(e.metadata, now, cfg.settings)]}
    /\ UNCHANGED <<cfg, regVars, fileVars, memVars, wpc, wcall, ret, runs, ncalls, first, now, keyOf>>

\* Time passes.
Pass ==
    /\ now < MaxTime
    /\ now' = now + 1
    /\ UNCHANGED <<cfg, regVars, fileVars, memVars, wpc, wcall, ret, runs, ncalls, first, keyOf, verdicts>>

----------------------------------------------------------------------------
(* TypeRegistry: the class-level tables of serializers (by class) and of    *)
(* deserializers (by type name), and custom_encoder / custom_decoder on a   *)
(* model instance.                                                          *)

\* The model classes of a run: SampleData, and two classes of the same name
\* LocalModel, each defined inside a function of the module tests.
ModelTypes == {"SampleData", "LocalModel", "LocalModel2"}

\* f"{model_class.__module__}.{model_class.__name__}"
type_name(T) == IF T = "SampleData" THEN "tests.SampleData" ELSE "tests.LocalModel"

TypeNames == {type_name(T) : T \in ModelTypes}

\* An instance of the class cls with field value v; the dict a serializer
\* returns, made by the generic serializer (by = "generic", cls the type
\* name under "__pydantic_model__") or by a registered one of the caller's.
Instance(cls, v) == [shape |-> "instance", cls |-> cls, by |-> "", v |-> v]
Envelope(name, by, v) == [shape |-> "dict", cls |-> name, by |-> by, v |-> v]

NoDeserializer == [kind |-> "none", cls |-> ""]
CustomDeserializer == [kind |-> "custom", cls |-> ""]
\* deserialize_pydantic, closed over model_class.
GenericDeserializer(T) == [kind |-> "generic", cls |-> T]

EmptyRegistry ==
    [serializers |-> [T \in ModelTypes |-> "none"],
     deserializers |-> [n \in TypeNames |-> NoDeserializer]]

NoCoded == [op |-> "none", given |-> Instance("", 0), gave |-> Instance("", 0),
            registered |-> FALSE]

is_registered(reg, T) == reg.serializers[T] # "none"

register(reg, T, serializer) == [reg EXCEPT !.serializers[T] = serializer]

register_deserializer(reg, name, deserializer) ==
    [reg EXCEPT !.deserializers[name] = deserializer]

register_pydantic_model(reg, T, custom_serializer, custom_deserializer) ==
    register_deserializer(
        register(reg, T, IF custom_serializer THEN "custom" ELSE "generic"),
        type_name(T),
        IF custom_deserializer THEN CustomDeserializer ELSE GenericDeserializer(T))

\* A custom_encoder that registers the generic functions on every call.
custom_encoder_reregisters(reg, obj) ==
    register_pydantic_model(reg, obj.cls, FALSE, FALSE)

\* custom_encoder on a model instance, lines 145-147: the registry after it.
custom_encoder_registers(reg, obj) ==
    IF is_registered(reg, obj.cls) THEN reg
    ELSE register_pydantic_model(reg, obj.cls, FALSE, FALSE)

\* custom_encoder on a model instance, lines 148-152: what the serializer of
\* its class returns.
custom_encoder_model(reg, obj) ==
    IF custom_encoder_registers(reg, obj).serializers[obj.cls] = "generic"
    THEN Envelope(type_name(obj.cls), "generic", obj.v)
    ELSE Envelope("", "custom", obj.v)

\* custom_decoder on a dict: with "__pydantic_model__" and "__data__" the
\* registered deserializer, or else the class imported by name, rebuilds the
\* instance; any other dict is returned as a dict.
custom_decoder(reg, dct) ==
    IF dct.by # "generic" THEN dct
    ELSE LET deserializer == reg.deserializers[dct.cls] IN
         CASE deserializer.kind = "generic" -> Instance(deserializer.cls, dct.v)
           [] deserializer.kind = "custom" -> Instance("custom", dct.v)
           [] Resolvable(dct.cls) -> Instance("SampleData", dct.v)
           [] OTHER -> Instance("AttributeError", 0)

----------------------------------------------------------------------------
(* Specifications.                                                         *)

\* Entries offered to set where callers run concurrently: a model payload, a
\* second one, a payload whose type cannot be resolved on reading, and one
\* json cannot encode.
ConcEntries ==
    { create_cache_entry(Pay("SampleData", Num(1)), 0),
      create_cache_entry(Pay("LocalModel", Num(1)), 0),
      create_cache_entry(Pay("object", Num(1)), 0) }

InitFile ==
    /\ pc = [p \in Procs |-> "done"]
    /\ op = [p \in Procs |-> NoOp]
    /\ res = [p \in Procs |-> Outcome("none", 1, "init", NoEntry, FALSE)]
    /\ timer = [p \in Procs |-> 0]
    /\ dirLock = [k \in Keys |-> 0]
    /\ lockHolder = [i \in LockInodes |-> 0]
    /\ lockFd = [p \in Procs |-> 0]
    /\ dirData = [k \in Keys |-> 0]
    /\ dirTmp = [k \in Keys |-> 0]
    /\ content = [i \in DataInodes |-> <<>>]
    /\ fd = [p \in Procs |-> 0]
    /\ blk = [p \in Procs |-> {}]
    /\ cacheDir = TRUE
    /\ denied = {}
    /\ lastSet = [k \in Keys |-> NoEntry]
    /\ damage = [k \in Keys |-> "none"]

InitCalls ==
    /\ wpc = [p \in Procs |-> "idle"]
    /\ wcall = [p \in Procs |-> NoCall]
    /\ ret = [p \in Procs |-> WOutcome(NoCall, "init", NoPay, NoMeta, FALSE)]
    /\ runs = 0
    /\ ncalls = [a \in Keys |-> 0]
    /\ first = [a \in Keys |-> NoPay]
    /\ now = 0
    /\ keyOf = [a \in Keys |-> {}]
    /\ verdicts = {}

InitMem ==
    /\ mem = [k \in Keys |-> NoEntry]
    /\ memRes = Outcome("none", 1, "init", NoEntry, FALSE)
    /\ memLast = [k \in Keys |-> NoEntry]
    /\ registry = EmptyRegistry
    /\ coded = NoCoded

\* Any number of callers on one key.
Init ==
    /\ cfg = [backend |-> "file", callers |-> Procs, keys |-> {1}, entries |-> ConcEntries,
              settings |-> CacheSettings]
    /\ InitFile
    /\ InitMem
    /\ InitCalls

Next ==
    \/ \E p \in Procs : Start(p)
    \/ \E p \in Procs : GetExists(p)
    \/ \E p \in Procs : LockOpen(p)
    \/ \E p \in Procs : LockAcquire(p)
    \/ \E p \in Procs : LockBusy(p)
    \/ \E p \in Procs : Sleep(p)
    \/ Tick
    \/ \E p \in Procs : GetRead(p)
    \/ \E p \in Procs : GetUnlink(p)
    \/ \E p \in Procs : SetOpen(p)
    \/ \E p \in Procs : SetWrite(p)
    \/ \E p \in Procs : SetFlush(p)
    \/ \E p \in Procs : SetReplace(p)
    \/ \E p \in Procs : SetCleanup(p)
    \/ \E p \in Procs : ExistsTest(p)
    \/ \E p \in Procs : Finally(p)
    \/ \E p \in Procs : LockUnlink(p)

Spec == Init /\ [][Next]_vars

----------------------------------------------------------------------------
(* The file backend under concurrency.                                     *)

\* p is inside the with-body that _file_lock guards.
InCritical(p) ==
    pc[p] \in {"get_read", "get_unlink", "set_open", "set_write", "set_flush",
               "set_replace", "set_cleanup", "exists_test"}

\* C1: at most one caller at a time is inside the lock-guarded section of a key.
C1_MutualExclusion ==
    \A p, q \in Procs :
        (p # q /\ InCritical(p) /\ InCritical(q)) => Key(p) # Key(q)

\* C2: the entry file is at every instant absent or the complete serialization
\* of an entry passed to set, so no get reads a partially written file.
C2_FileAlwaysComplete ==
    \A k \in Keys :
        dirData[k] # 0 =>
            \E e \in cfg.entries : Serializable(e.data) /\ content[dirData[k]] = serialize(e)

\* C3: an operation that ran while another caller held the key's lock all along,
\* and for longer than lock_timeout, ends in the lock-timeout error.
C3_TimeoutWhileHeld ==
    \A p \in Procs :
        (pc[p] = "done" /\ \E q \in blk[p] : HoldsLock(q) /\ timer[q] > LockTimeout)
            => res[p].tag = "TimeoutError"

\* C4: get, set and exists hold the key's lock whenever they inspect or change
\* the entry file, the test for its existence included, until they are finished.
C4_LockBeforeTouch ==
    \A p \in Procs : (pc[p] = "get_exists" \/ InCritical(p)) => HoldsLock(p)

\* C5: a caller whose operation returned or raised holds no lock, and a caller
\* that tries the lock while no other operation is in progress finds it free.
C5_ReleasedOnEveryExit ==
    \A p \in Procs :
        /\ pc[p] = "done" => (lockFd[p] = 0 /\ \A i \in LockInodes : lockHolder[i] # p)
        /\ (pc[p] = "lock_try" /\ \A q \in Procs \ {p} : pc[q] = "done")
              => lockHolder[lockFd[p]] = 0

\* A caller's operation raised, and the next caller is at its first attempt.
C5_Witness ==
    \E p, q \in Procs :
        /\ p # q
        /\ pc[p] = "done" /\ res[p].tag \in Raised
        /\ pc[q] = "lock_try" /\ timer[q] = 0

\* C7: once an operation has completed and none is in progress, neither the
\* lock marker nor the temporary file of the key exists.
C7_NoLeftovers ==
    (\A p \in Procs : pc[p] = "done") =>
        \A k \in Keys : dirLock[k] = 0 /\ dirTmp[k] = 0

\* A set has completed successfully, its entry file is in place, nothing runs.
C7_Witness ==
    /\ \A p \in Procs : pc[p] = "done"
    /\ \E p \in Procs : res[p].tag = "ok"
    /\ \E k \in Keys : dirData[k] # 0

----------------------------------------------------------------------------
(* Termination of the polling loop.                                        *)

\* The polling loop of a caller runs on that caller's own thread: it keeps
\* taking its steps (try the lock, test the time, sleep), and its sleep takes
\* time. Nothing is assumed of the other callers: a holder may keep the lock.
PollStep(p) == LockAcquire(p) \/ LockBusy(p) \/ Sleep(p)

InitLive ==
    /\ cfg = [backend |-> "file", callers |-> Procs, keys |-> {1},
              entries |-> {create_cache_entry(Pay("SampleData", Num(1)), 0)},
              settings |-> CacheSettings]
    /\ InitFile
    /\ InitMem
    /\ InitCalls

SpecLive == InitLive /\ [][Next]_vars /\ \A p \in Procs : WF_vars(PollStep(p))

\* C6: a caller that polls for the lock leaves the polling loop: it acquires
\* the lock or raises the timeout error, whatever the other callers do.
C6_PollingTerminates == \A p \in Procs : Polling(p) ~> ~Polling(p)

\* A caller polled until lock_timeout had elapsed and raised the timeout error.
C6_Witness == \E p \in Procs : pc[p] = "finally" /\ res[p].tag = "TimeoutError"

----------------------------------------------------------------------------
(* The backends used by one caller.                                        *)

\* Entries offered to set by a single caller: two model payloads, an int and
\* a datetime.
SeqEntries ==
    { create_cache_entry(Pay("SampleData", Num(1)), 0),
      create_cache_entry(Pay("SampleData", Num(2)), 0),
      create_cache_entry(Pay("int", Num(1)), 0),
      create_cache_entry(Pay("datetime", Num(1)), 0) }

\* One caller, every key, on the in-memory or on the file backend.
InitSeq ==
    /\ \E b \in {"memory", "file"} :
        cfg = [backend |-> b, callers |-> {1}, keys |-> Keys, entries |-> SeqEntries,
               settings |-> CacheSettings]
    /\ InitFile
    /\ InitMem
    /\ InitCalls

\* With one caller the lock is never busy and every file set wrote is sound.
NextSeq ==
    \/ \E p \in Procs : Start(p)
    \/ \E p \in Procs : GetExists(p)
    \/ \E p \in Procs : LockOpen(p)
    \/ \E p \in Procs : LockAcquire(p)
    \/ Tick
    \/ \E p \in Procs : GetRead(p)
    \/ \E p \in Procs : SetOpen(p)
    \/ \E p \in Procs : SetWrite(p)
    \/ \E p \in Procs : SetFlush(p)
    \/ \E p \in Procs : SetReplace(p)
    \/ \E p \in Procs : SetCleanup(p)
    \/ \E p \in Procs : ExistsTest(p)
    \/ \E p \in Procs : Finally(p)
    \/ \E p \in Procs : LockUnlink(p)
    \/ \E k \in cfg.keys : MemGet(k)
    \/ \E k \in cfg.keys, e \in cfg.entries : MemSet(k, e)
    \/ \E k \in cfg.keys : MemExists(k)

SpecSeq == InitSeq /\ [][NextSeq]_vars

\* What get and exists of key k return when e is the entry of the most recent
\* set(k), NoEntry when there was none.
Expected(r, e) ==
    CASE r.name = "get" ->
            r = IF e = NoEntry THEN Outcome("get", r.key, "none", NoEntry, FALSE)
                ELSE Outcome("get", r.key, "entry", e, FALSE)
      [] r.name = "exists" -> r = Outcome("exists", r.key, "bool", NoEntry, e # NoEntry)
      [] OTHER -> TRUE

\* C9: on either backend, get(k) returns an entry equal to the one of the most
\* recent set(k), absent if there was none, and exists(k) tells whether there
\* was one; the sets on other keys make no difference.
C9_BackendStoreSemantics ==
    /\ \A p \in Procs : pc[p] = "done" => Expected(res[p], lastSet[res[p].key])
    /\ Expected(memRes, memLast[memRes.key])

----------------------------------------------------------------------------
(* Recovery from a corrupted entry file.                                   *)

InitHeal ==
    /\ cfg = [backend |-> "file", callers |-> {1}, keys |-> Keys, entries |-> SeqEntries,
              settings |-> CacheSettings]
    /\ InitFile
    /\ InitMem
    /\ InitCalls

NextHeal ==
    \/ \E p \in Procs : Start(p)
    \/ \E p \in Procs : GetExists(p)
    \/ \E p \in Procs : LockOpen(p)
    \/ \E p \in Procs : LockAcquire(p)
    \/ Tick
    \/ \E p \in Procs : GetRead(p)
    \/ \E p \in Procs : GetUnlink(p)
    \/ \E p \in Procs : SetOpen(p)
    \/ \E p \in Procs : SetWrite(p)
    \/ \E p \in Procs : SetFlush(p)
    \/ \E p \in Procs : SetReplace(p)
    \/ \E p \in Procs : SetCleanup(p)
    \/ \E p \in Procs : ExistsTest(p)
    \/ \E p \in Procs : Finally(p)
    \/ \E p \in Procs : LockUnlink(p)
    \/ \E k \in cfg.keys : Corrupt(k)

SpecHeal == InitHeal /\ [][NextHeal]_vars

\* C8: a get on a key whose file was corrupted returns absent and leaves no
\* entry file; once a set on that key has returned, get returns the entry set.
C8_SelfHeals ==
    \A p \in Procs :
        (pc[p] = "done" /\ res[p].name = "get") =>
            /\ damage[res[p].key] = "healed" =>
                    (res[p].tag = "none" /\ dirData[res[p].key] = 0)
            /\ damage[res[p].key] = "rewritten" =>
                    (res[p].tag = "entry" /\ res[p].entry = lastSet[res[p].key])

----------------------------------------------------------------------------
(* The memoizing wrapper, one caller.                                      *)

\* The types of the objects the wrapped function returns.
ResultTypes == {"int", "datetime", "SampleData", "LocalModel", "object"}

InitWrap ==
    /\ \E b \in {"memory", "file"}, t \in ResultTypes,
          x \in {NoExpiration, Seconds(HourSeconds)},
          co \in BOOLEAN, am \in BOOLEAN :
        cfg = [backend |-> b, callers |-> {1}, keys |-> Keys, entries |-> {},
               resultType |-> t, outcomes |-> {"return"}, reconfigure |-> FALSE,
               calls |-> [a \in Keys |-> PlainCall(a)], ignore_self |-> FALSE,
               settings |-> [expiration |-> x, time_check |-> "CREATION", cache_only |-> co,
                             key_parameters |-> {}, ignore_self |-> FALSE,
                             return_metadata_as_member |-> am,
                             return_metadata_on_primitives |-> FALSE]]
    /\ InitFile
    /\ InitMem
    /\ InitCalls

NextWrap ==
    \/ \E p \in Procs : WStart(p)
    \/ \E p \in Procs : WGet(p)
    \/ \E p \in Procs : WExecute(p)
    \/ \E p \in Procs : WPersist(p)
    \/ \E p \in Procs : WReturn(p)
    \/ Pass

SpecWrap == InitWrap /\ [][NextWrap]_vars

\* C10: with no expiration (and cache_only off), the first call with an
\* argument executes the wrapped function and reports from_cache = false; once
\* it has returned a value, every later call with that argument returns an
\* equal payload, reports from_cache = true and does not execute the function.
C10_MemoizedOnce ==
    \A p \in Procs :
        (/\ wpc[p] = "idle"
         /\ ret[p].tag # "init"
         /\ cfg.settings.expiration = NoExpiration
         /\ ~cfg.settings.cache_only) =>
            /\ ret[p].callno = 1 =>
                    (ret[p].invoked /\ (ret[p].tag = "value" => ~ret[p].from_cache))
            /\ (ret[p].callno > 1 /\ first[ret[p].arg] # NoPay) =>
                    /\ ret[p].tag = "value"
                    /\ ret[p].data = first[ret[p].arg]
                    /\ ret[p].from_cache
                    /\ ~ret[p].invoked

----------------------------------------------------------------------------
(* The memoizing wrapper around a function that may raise, on a store that *)
(* is switched to cache-only mode at some point.                           *)

\* The kinds of value the wrapped function yields: a model object, a mapping,
\* a primitive.
CallTypes == {"SampleData", "dict", "int"}

InitCall ==
    /\ \E b \in {"memory", "file"}, t \in CallTypes,
          x \in {NoExpiration, Seconds(HourSeconds)}, am \in BOOLEAN :
        cfg = [backend |-> b, callers |-> {1}, keys |-> {1}, entries |-> {},
               resultType |-> t, outcomes |-> {"return", "fallback", "error"},
               reconfigure |-> TRUE,
               calls |-> [a \in Keys |-> PlainCall(a)], ignore_self |-> FALSE,
               settings |-> [expiration |-> x, time_check |-> "CREATION",
                             key_parameters |-> {}, ignore_self |-> FALSE,
                             cache_only |-> FALSE,
                             return_metadata_as_member |-> am,
                             return_metadata_on_primitives |-> FALSE]]
    /\ InitFile
    /\ InitMem
    /\ InitCalls

NextCall ==
    \/ \E p \in Procs : WStart(p)
    \/ \E p \in Procs : WGet(p)
    \/ \E p \in Procs : WExecute(p)
    \/ \E p \in Procs : WPersist(p)
    \/ \E p \in Procs : WRaise(p)
    \/ \E p \in Procs : WReturn(p)
    \/ CacheOnlyOn
    \/ Pass

SpecCall == InitCall /\ [][NextCall]_vars

\* C11: in cache-only mode, a call that found no entry, or only an expired
\* one, ends with CacheMissError, has not executed the wrapped function, and
\* has left what the backend holds as it was when the call began.
C11_CacheOnlyMiss ==
    \A p \in Procs :
        (/\ wpc[p] = "idle"
         /\ ret[p].tag \notin {"init", "running"}
         /\ ret[p].cache_only
         /\ ret[p].found \in {"none", "expired"}) =>
            /\ ret[p].tag = "CacheMissError"
            /\ ~ret[p].invoked
            /\ ~ret[p].set
            /\ Stored = ret[p].before

\* An expired entry was found in cache-only mode.
C11_Witness ==
    \E p \in Procs :
        /\ wpc[p] = "idle"
        /\ ret[p].cache_only
        /\ ret[p].found = "expired"
        /\ ret[p].tag = "CacheMissError"
        /\ Stored[ret[p].arg].entry # NoEntry

\* C12: with cache_only off, a call that found an entry the expiration policy
\* rejects has executed the wrapped function, as a call that found none; if
\* the function returned, the backend now holds an entry created at the
\* instant of this call (valid at that instant, from_cache false), and the
\* call returned the function's new result, not from cache.
C12_ExpiredIsMiss ==
    \A p \in Procs :
        (/\ wpc[p] = "idle"
         /\ ret[p].tag \notin {"init", "running"}
         /\ ~ret[p].cache_only
         /\ ret[p].found = "expired") =>
            /\ ret[p].invoked
            /\ ret[p].outcome = "return" =>
                LET e == Lookup(ret[p].arg).entry IN
                /\ ret[p].set
                /\ e.metadata.creation_timestamp = ret[p].at
                /\ ret[p].at <= now
                /\ is_cache_valid(e.metadata, ret[p].at, cfg.settings)
                /\ ~e.metadata.from_cache
                /\ ret[p].tag = "value"
                /\ ret[p].data = func(runs)
                /\ ~ret[p].from_cache

\* An expired entry was found and replaced.
C12_Witness ==
    \E p \in Procs :
        /\ wpc[p] = "idle"
        /\ ~ret[p].cache_only
        /\ ret[p].found = "expired"
        /\ ret[p].outcome = "return"
        /\ ret[p].tag = "value"
        /\ ret[p].before[ret[p].arg] # Stored[ret[p].arg]

\* C13: a call in which the wrapped function raised an error carrying a
\* fallback value (a model object, a mapping or a primitive) has stored an
\* entry holding that value, and the error it raised to its caller is the
\* function's own.
C13_FallbackPersistedThenRaised ==
    \A p \in Procs :
        (/\ wpc[p] = "idle"
         /\ ret[p].tag \notin {"init", "running"}
         /\ ret[p].outcome = "fallback") =>
            /\ ret[p].set
            /\ Lookup(ret[p].arg).entry.data = func(runs)
            /\ ret[p].tag = "FuncError"

\* C14: a call in which the wrapped function raised an error without a
\* fallback value has raised that error, has not called set, and has left
\* what the backend holds as it was when the call began; the caller's next
\* call with the same argument does not find a valid entry.
C14_PlainErrorPersistsNothing ==
    \A p \in Procs :
        (wpc[p] = "idle" /\ ret[p].tag \notin {"init", "running"}) =>
            /\ ret[p].outcome = "error" =>
                    /\ ret[p].tag = "FuncError"
                    /\ ~ret[p].set
                    /\ Stored = ret[p].before
            /\ ret[p].prev = "error" => ret[p].found # "valid"

\* After a call that raised, the same call was made again and missed again.
C14_Witness ==
    \E p \in Procs :
        /\ wpc[p] = "idle"
        /\ ret[p].prev = "error"
        /\ ret[p].invoked
        /\ ret[p].outcome = "error"
        /\ ret[p].tag = "FuncError"

----------------------------------------------------------------------------
(* Key generation for two calls of one method.                             *)

\* The calls of C.m the runs draw from: two instances of C as receiver, an
\* int or one of two instances of a class A as x, an int as y.
MethodCalls ==
    { MethodCall(i, x, y, style) :
        i \in {1, 2}, x \in {IntVal(1), Obj("A", 1), Obj("A", 2)}, y \in {IntVal(1), IntVal(2)},
        style \in {"pos", "kw", "kw2"} }

\* The run's two calls; further call numbers, if any, are not used.
CallPair(c1, c2) ==
    [a \in Keys |-> IF a = 1 THEN c1 ELSE IF a = 2 THEN c2 ELSE PlainCall(a)]

KeySettings(key_parameters, ignore_self) ==
    [expiration |-> NoExpiration, time_check |-> "CREATION", cache_only |-> FALSE,
     key_parameters |-> key_parameters, ignore_self |-> ignore_self,
     return_metadata_as_member |-> TRUE, return_metadata_on_primitives |-> FALSE]

InitKey ==
    /\ \E c1 \in MethodCalls, c2 \in MethodCalls, d \in BOOLEAN, g \in BOOLEAN,
          kp \in {{}, {"x"}, {"y"}} :
        cfg = [backend |-> "memory", callers |-> {1}, keys |-> {1, 2}, entries |-> {},
               resultType |-> "SampleData", outcomes |-> {"return"}, reconfigure |-> FALSE,
               calls |-> CallPair(c1, c2), ignore_self |-> d,
               settings |-> KeySettings(kp, g)]
    /\ InitFile
    /\ InitMem
    /\ InitCalls

NextKey == \E a \in Keys : GenerateKey(a)

SpecKey == InitKey /\ [][NextKey]_vars

\* The value a call passes for a parameter, positionally or by keyword.
ArgOf(call, i) ==
    IF i <= Len(call.args) THEN call.args[i] ELSE KwValue(call.kwargs, call.params[i])

\* Two calls of the same function, written the same way.
SameShape(c1, c2) ==
    /\ c1.func = c2.func
    /\ c1.params = c2.params
    /\ Len(c1.args) = Len(c2.args)
    /\ [j \in DOMAIN c1.kwargs |-> c1.kwargs[j].name] = [j \in DOMAIN c2.kwargs |-> c2.kwargs[j].name]

\* The parameter is left out of the key: it is not in key_parameters, or it
\* is the receiver and bound-entity exclusion is in effect.
Excluded(func_call, name) ==
    \/ func_call.key_parameters # {} /\ name \notin func_call.key_parameters
    \/ name = "self" /\ func_call.ignore_self

\* C17: two calls of the same function, written the same way, that differ
\* only in the values of excluded parameters (positional or keyword) are
\* given the same key.
C17_ExcludedArgumentsIgnored ==
    LET c1 == cfg.calls[1]
        c2 == cfg.calls[2] IN
    (/\ SameShape(c1, c2)
     /\ \A i \in DOMAIN c1.params :
            ~Excluded(FuncCallOf(1), c1.params[i]) => ArgOf(c1, i) = ArgOf(c2, i)) =>
        \A k1 \in keyOf[1], k2 \in keyOf[2] : k1 = k2

\* The calls differ in x, passed by keyword and excluded by key_parameters,
\* and in the receiver, excluded by ignore_self; both got the same key.
C17_Witness ==
    LET c1 == cfg.calls[1]
        c2 == cfg.calls[2] IN
    /\ SameShape(c1, c2)
    /\ Len(c1.args) = 1
    /\ ArgOf(c1, 1) # ArgOf(c2, 1)
    /\ ArgOf(c1, 2) # ArgOf(c2, 2)
    /\ ArgOf(c1, 3) = ArgOf(c2, 3)
    /\ cfg.settings.key_parameters = {"y"}
    /\ FuncCallOf(1).ignore_self
    /\ keyOf[1] # {}
    /\ keyOf[1] = keyOf[2]

----------------------------------------------------------------------------
(* A memoized method called on instances that share one backend.           *)

InitMethod ==
    /\ \E b \in {"memory", "file"}, d \in BOOLEAN, g \in BOOLEAN,
          c1 \in {c \in MethodCalls : c.kwargs = <<>> /\ c.args[1] = Obj("C", 1)},
          c2 \in {c \in MethodCalls : c.kwargs = <<>>} :
        cfg = [backend |-> b, callers |-> {1}, keys |-> {1, 2}, entries |-> {},
               resultType |-> "SampleData", outcomes |-> {"return"}, reconfigure |-> FALSE,
               calls |-> CallPair(c1, c2), ignore_self |-> d,
               settings |-> KeySettings({}, g)]
    /\ InitFile
    /\ InitMem
    /\ InitCalls

NextMethod ==
    \/ \E p \in Procs : WStart(p)
    \/ \E p \in Procs : WGet(p)
    \/ \E p \in Procs : WExecute(p)
    \/ \E p \in Procs : WPersist(p)
    \/ \E p \in Procs : WReturn(p)

SpecMethod == InitMethod /\ [][NextMethod]_vars

\* The two calls of the run are made on different instances, with the same
\* other arguments.
OtherInstance ==
    LET c1 == cfg.calls[1]
        c2 == cfg.calls[2] IN
    /\ SameShape(c1, c2)
    /\ ArgOf(c1, 1) # ArgOf(c2, 1)
    /\ \A i \in DOMAIN c1.params : i > 1 => ArgOf(c1, i) = ArgOf(c2, i)

\* C16: a method was called on one instance and returned; the first call
\* with the same other arguments on another instance, with ignore_self in
\* effect, is a hit that returns the first call's payload with from_cache
\* true and does not execute the method; without ignore_self it is a miss
\* that executes the method.
C16_IgnoreSelfSharesEntries ==
    \A p \in Procs :
        (/\ wpc[p] = "idle"
         /\ OtherInstance
         /\ ret[p].arg = 2
         /\ ret[p].callno = 1
         /\ ret[p].tag # "running"
         /\ first[1] # NoPay) =>
            IF FuncCallOf(2).ignore_self
            THEN /\ ret[p].tag = "value"
                 /\ ret[p].from_cache
                 /\ ~ret[p].invoked
                 /\ ret[p].data = first[1]
            ELSE /\ ret[p].tag = "value"
                 /\ ~ret[p].from_cache
                 /\ ret[p].invoked
                 /\ ret[p].data # first[1]

\* With ignore_self, the call on the second instance returned the payload of
\* the call on the first.
C16_Witness ==
    \E p \in Procs :
        /\ wpc[p] = "idle"
        /\ OtherInstance
        /\ ret[p].arg = 2
        /\ ret[p].callno = 1
        /\ first[1] # NoPay
        /\ cfg.ignore_self
        /\ ret[p].from_cache
        /\ ret[p].data = first[1]

\* The two calls of the run are made on the same instance, and the value of
\* an argument differs.
OtherArguments ==
    LET c1 == cfg.calls[1]
        c2 == cfg.calls[2] IN
    /\ SameShape(c1, c2)
    /\ ArgOf(c1, 1) = ArgOf(c2, 1)
    /\ \E i \in DOMAIN c1.params : i > 1 /\ ArgOf(c1, i) # ArgOf(c2, i)

\* C19: two calls on the same instance whose arguments differ in value have
\* different keys; the first call of each executes the method, and a repeat
\* of either, once its first call has returned, is a hit that returns the
\* payload of its own first call.
C19_DistinctArgumentsDistinctEntries ==
    OtherArguments =>
        /\ \A k1 \in keyOf[1], k2 \in keyOf[2] : k1 # k2
        /\ \A p \in Procs :
            (wpc[p] = "idle" /\ ret[p].tag \notin {"init", "running"}) =>
                /\ ret[p].callno = 1 => (ret[p].invoked /\ ~ret[p].from_cache)
                /\ (ret[p].callno > 1 /\ first[ret[p].arg] # NoPay) =>
                        /\ ret[p].tag = "value"
                        /\ ret[p].from_cache
                        /\ ret[p].data = first[ret[p].arg]

----------------------------------------------------------------------------
(* The expiration policy applied to one entry as time passes.              *)

\* Configured durations: one or two hours, as seconds or as text, and a day.
Durations ==
    { Seconds(HourSeconds), Seconds(2 * HourSeconds), Text(1, "h"), Text(2, "h"), Text(1, "d") }

ValidSettings(expiration, time_check) ==
    [expiration |-> expiration, time_check |-> time_check, cache_only |-> FALSE,
     key_parameters |-> {}, ignore_self |-> FALSE,
     return_metadata_as_member |-> TRUE, return_metadata_on_primitives |-> FALSE]

InitValid ==
    /\ \E c \in 0..MaxTime, d \in Durations :
        cfg = [backend |-> "memory", callers |-> {1}, keys |-> {1},
               entries |-> {CacheEntry(ModelMetadata(c, c, NoTime, <<>>, FALSE, "tests.SampleData"),
                                       Pay("SampleData", Num(1)))},
               resultType |-> "SampleData", outcomes |-> {"return"}, reconfigure |-> FALSE,
               calls |-> [a \in Keys |-> PlainCall(a)], ignore_self |-> FALSE,
               settings |-> ValidSettings(d, "CREATION")]
    /\ InitFile
    /\ InitMem
    /\ InitCalls

NextValid ==
    \/ Validate
    \/ Pass

SpecValid == InitValid /\ [][NextValid]_vars

\* The configured duration in instants of the clock.
DurationTicks(expiration) ==
    CASE expiration.kind = "int" -> (expiration.number * HourTicks) \div HourSeconds
      [] expiration.unit = "h" -> expiration.number * HourTicks
      [] OTHER -> expiration.number * DayHours * HourTicks

----------------------------------------------------------------------------
(* The expiration policy in every mode, on records with and without a      *)
(* last-update instant and an explicit expiry instant.                     *)

TimeChecks == {"CREATION", "LAST_UPDATE", "EXPIRES_AT"}

\* The instants a metadata field can hold: None, or an instant of the clock.
Instants == {NoTime} \cup (0 .. MaxTime - 1)

\* Configured expirations: none, zero seconds, an hour as seconds or as text,
\* two hours.
Expirations ==
    { NoExpiration, Seconds(0), Seconds(HourSeconds), Text(1, "h"), Text(2, "h") }

InitPolicy ==
    /\ \E c \in Instants, u \in Instants, x \in Instants, d \in Expirations, tc \in TimeChecks :
        cfg = [backend |-> "memory", callers |-> {1}, keys |-> {1},
               entries |-> {CacheEntry(ModelMetadata(c, u, x, <<>>, FALSE, "tests.SampleData"),
                                       Pay("SampleData", Num(1)))},
               resultType |-> "SampleData", outcomes |-> {"return"}, reconfigure |-> FALSE,
               calls |-> [a \in Keys |-> PlainCall(a)], ignore_self |-> FALSE,
               settings |-> ValidSettings(d, tc)]
    /\ InitFile
    /\ InitMem
    /\ InitCalls

NextPolicy ==
    \/ Validate
    \/ Pass

SpecPolicy == InitPolicy /\ [][NextPolicy]_vars

\* C21: with no expiration configured, every verdict of is_cache_valid is
\* "valid", whatever the record's instants, the clock and the time_check
\* mode are; in particular under EXPIRES_AT on a record whose explicit
\* expiry instant has passed.
C21_NoExpirationAlwaysValid ==
    cfg.settings.expiration = NoExpiration => \A v \in verdicts : v.valid

\* A record whose explicit expiry instant lies in the past was judged under
\* EXPIRES_AT with no expiration configured.
C21_Witness ==
    \E e \in cfg.entries, v \in verdicts :
        /\ cfg.settings.expiration = NoExpiration
        /\ cfg.settings.time_check = "EXPIRES_AT"
        /\ e.metadata.expires_at # NoTime
        /\ e.metadata.expires_at < v.at
        /\ v.valid

\* C22: with an expiration configured and time_check = EXPIRES_AT, a verdict
\* is "valid" exactly when the record's explicit expiry instant is null or
\* the instant of the verdict is strictly before it; the configured value
\* and the creation and last-update instants play no part.
C22_ExpiresAtComparesExpiryOnly ==
    (cfg.settings.expiration # NoExpiration /\ cfg.settings.time_check = "EXPIRES_AT") =>
        \A e \in cfg.entries, v \in verdicts :
            v.valid <=> (e.metadata.expires_at = NoTime \/ v.at < e.metadata.expires_at)

\* Under EXPIRES_AT a record was judged valid although creation + duration
\* had passed, and another judged invalid although it had not.
C22_Witness ==
    \E e \in cfg.entries, v \in verdicts :
        /\ cfg.settings.expiration # NoExpiration
        /\ cfg.settings.time_check = "EXPIRES_AT"
        /\ e.metadata.creation_timestamp # NoTime
        /\ \/ /\ v.valid
              /\ e.metadata.expires_at # NoTime
              /\ v.at >= e.metadata.creation_timestamp + DurationTicks(cfg.settings.expiration)
           \/ /\ ~v.valid
              /\ v.at < e.metadata.creation_timestamp + DurationTicks(cfg.settings.expiration)
        /\ \E w \in verdicts : w.valid # v.valid

\* The reference instant of a record under CREATION and LAST_UPDATE.
Reference(metadata, time_check) ==
    IF time_check = "LAST_UPDATE" /\ metadata.last_update_timestamp # NoTime
    THEN metadata.last_update_timestamp
    ELSE metadata.creation_timestamp

\* C23: under LAST_UPDATE the reference instant is the last-update instant,
\* or the creation instant when the last-update instant is null; under
\* CREATION and LAST_UPDATE with a configured duration, a record without a
\* reference instant is valid at every instant, and any other record is
\* valid exactly when the instant is strictly before reference + duration.
C23_ReferenceInstant ==
    (cfg.settings.expiration # NoExpiration /\ cfg.settings.time_check # "EXPIRES_AT") =>
        \A e \in cfg.entries, v \in verdicts :
            LET r == Reference(e.metadata, cfg.settings.time_check) IN
            v.valid <=> (r = NoTime \/ v.at < r + DurationTicks(cfg.settings.expiration))

\* Under LAST_UPDATE a record without a last-update instant was judged by
\* its creation instant: valid before creation + duration, invalid after.
C23_Witness ==
    \E e \in cfg.entries, v \in verdicts, w \in verdicts :
        /\ cfg.settings.time_check = "LAST_UPDATE"
        /\ cfg.settings.expiration # NoExpiration
        /\ e.metadata.last_update_timestamp = NoTime
        /\ e.metadata.creation_timestamp # NoTime
        /\ v.valid /\ ~w.valid /\ v.at < w.at

----------------------------------------------------------------------------
(* The entries the wrapper creates, under every kind of expiration.        *)

InitExpiry ==
    /\ \E b \in {"memory", "file"}, t \in {"SampleData", "int"},
          x \in {NoExpiration, Seconds(0), Seconds(HourSeconds), Text(1, "h")},
          tc \in {"CREATION", "EXPIRES_AT"} :
        cfg = [backend |-> b, callers |-> {1}, keys |-> {1}, entries |-> {},
               resultType |-> t, outcomes |-> {"return"}, reconfigure |-> FALSE,
               calls |-> [a \in Keys |-> PlainCall(a)], ignore_self |-> FALSE,
               settings |-> ValidSettings(x, tc)]
    /\ InitFile
    /\ InitMem
    /\ InitCalls

NextExpiry ==
    \/ \E p \in Procs : WStart(p)
    \/ \E p \in Procs : WGet(p)
    \/ \E p \in Procs : WExecute(p)
    \/ \E p \in Procs : WPersist(p)
    \/ \E p \in Procs : WReturn(p)
    \/ Pass

SpecExpiry == InitExpiry /\ [][NextExpiry]_vars

\* The entry a caller has just handed to cache_instance.set.
Persisted(p) == wpc[p] = "return" /\ wcall[p].set

\* C24: an entry the wrapper persists has creation instant = last-update
\* instant = the instant of persisting, from_cache false, and an expiry
\* instant equal to that instant plus the configured expiration, null only
\* when no expiration is configured; for a configured numeric expiration
\* (zero included) the entry is judged valid under EXPIRES_AT at exactly
\* the instants at which it is judged valid under CREATION.
C24_WrapperMetadata ==
    \A p \in Procs : Persisted(p) =>
        LET m == wcall[p].entry.metadata
            x == cfg.settings.expiration IN
        /\ m.creation_timestamp = wcall[p].at
        /\ m.last_update_timestamp = wcall[p].at
        /\ ~m.from_cache
        /\ m.expires_at = NoTime <=> x = NoExpiration
        /\ x # NoExpiration => m.expires_at = wcall[p].at + DurationTicks(x)
        /\ x.kind = "int" =>
              \A t \in 0 .. MaxTime + 1 :
                  is_cache_valid(m, t, [cfg.settings EXCEPT !.time_check = "EXPIRES_AT"])
                      <=> is_cache_valid(m, t, [cfg.settings EXCEPT !.time_check = "CREATION"])

----------------------------------------------------------------------------
(* The arguments recorded in the metadata of a memoized method's entry.    *)

\* C25: the positional arguments recorded in the metadata of a persisted
\* entry start after the receiver exactly when key generation leaves the
\* receiver out (bound-entity exclusion in effect, through the decorator
\* or through the ignore_self setting), and include the receiver otherwise.
C25_RecordedArgsFollowKey ==
    \A p \in Procs : Persisted(p) =>
        LET func_call == FuncCallOf(wcall[p].arg)
            recorded == wcall[p].entry.metadata.args IN
        IF func_call.bound_entity # NoObj /\ func_call.ignore_self
        THEN recorded = SubSeq(func_call.args, 2, Len(func_call.args))
        ELSE recorded = func_call.args

----------------------------------------------------------------------------
(* What the memoized function hands back: the payload, with or without     *)
(* the entry's metadata.                                                   *)

\* The types of the payloads: a primitive, a mapping, a model, a datetime.
ShapeTypes == {"int", "dict", "SampleData", "datetime"}

InitShape ==
    /\ \E b \in {"memory", "file"}, t \in ShapeTypes, am \in BOOLEAN, prim \in BOOLEAN :
        cfg = [backend |-> b, callers |-> {1}, keys |-> {1}, entries |-> {},
               resultType |-> t, outcomes |-> {"return"}, reconfigure |-> FALSE,
               calls |-> [a \in Keys |-> PlainCall(a)], ignore_self |-> FALSE,
               settings |-> [expiration |-> NoExpiration, time_check |-> "CREATION",
                             cache_only |-> FALSE,
                             key_parameters |-> {}, ignore_self |-> FALSE,
                             return_metadata_as_member |-> am,
                             return_metadata_on_primitives |-> prim]]
    /\ InitFile
    /\ InitMem
    /\ InitCalls

NextShape ==
    \/ \E p \in Procs : WStart(p)
    \/ \E p \in Procs : WGet(p)
    \/ \E p \in Procs : WExecute(p)
    \/ \E p \in Procs : WPersist(p)
    \/ \E p \in Procs : WReturn(p)
    \/ Pass

SpecShape == InitShape /\ [][NextShape]_vars

\* The two cases in which the raw payload is to be returned: attachment is
\* disabled, or the payload is of a built-in type and metadata on primitives
\* is disabled.
RawCase ==
    \/ ~cfg.settings.return_metadata_as_member
    \/ /\ IsBuiltin(_qualified_name(func(1)))
       /\ ~cfg.settings.return_metadata_on_primitives

\* A call of the memoized function has ended.
Ended(p) == wpc[p] = "idle" /\ ret[p].tag \notin {"init", "running"}

\* C26: in the two raw-payload cases every call, the computing one and
\* every later hit, returns the payload the function computed, of the type
\* and with the value it had, and without metadata.
C26_RawPayload ==
    \A p \in Procs : (Ended(p) /\ RawCase) =>
        /\ ret[p].tag = "value"
        /\ ret[p].meta = NoMeta
        /\ ret[p].data = func(1)

\* C27: outside the two raw-payload cases every call returns the payload
\* with the entry's metadata attached; the value of the computing call and
\* of a later hit differ in from_cache only.
C27_MetadataAttached ==
    \A p \in Procs : (Ended(p) /\ ~RawCase) =>
        /\ ret[p].tag = "value"
        /\ ret[p].data = func(1)
        /\ ret[p].meta # NoMeta
        /\ ret[p].meta.from_cache = (ret[p].callno > 1)
        /\ ret[p].meta.creation_timestamp = ret[p].meta.last_update_timestamp
        /\ ret[p].meta.data_type = _qualified_name(func(1))
        /\ ret[p].invoked = (ret[p].callno = 1)

\* C28: on every backend, retrieving an entry, marking it from_cache and
\* attaching metadata to the value returned leave the stored entry as it
\* was: its metadata keeps from_cache = FALSE and its payload is unchanged.
C28_NoAliasing ==
    /\ [][\A p \in Procs :
            (wpc[p] \in {"get", "return"} /\ wpc'[p] # wpc[p]) => Stored' = Stored]_vars
    /\ [](\A k \in Keys : ~Stored[k].entry.metadata.from_cache)

----------------------------------------------------------------------------
(* The file backend used by one caller while the cache directory is        *)
(* deleted, or an entry file made unreadable, from outside.                *)

\* Entries offered to set: two model payloads and an int.
DirEntries ==
    { create_cache_entry(Pay("SampleData", Num(1)), 0),
      create_cache_entry(Pay("SampleData", Num(2)), 0),
      create_cache_entry(Pay("int", Num(1)), 0) }

InitDir ==
    /\ cfg = [backend |-> "file", callers |-> {1}, keys |-> Keys, entries |-> DirEntries,
              settings |-> CacheSettings]
    /\ InitFile
    /\ InitMem
    /\ InitCalls

NextDir ==
    \/ \E p \in Procs : Start(p)
    \/ \E p \in Procs : GetExists(p)
    \/ \E p \in Procs : LockOpen(p)
    \/ \E p \in Procs : LockAcquire(p)
    \/ \E p \in Procs : GetRead(p)
    \/ \E p \in Procs : GetUnlink(p)
    \/ \E p \in Procs : SetOpen(p)
    \/ \E p \in Procs : SetWrite(p)
    \/ \E p \in Procs : SetFlush(p)
    \/ \E p \in Procs : SetReplace(p)
    \/ \E p \in Procs : SetCleanup(p)
    \/ \E p \in Procs : ExistsTest(p)
    \/ \E p \in Procs : Finally(p)
    \/ \E p \in Procs : LockUnlink(p)
    \/ DeleteDir
    \/ \E k \in Keys : Deny(k)

SpecDir == InitDir /\ [][NextDir]_vars

\* C29: after the cache directory was deleted from outside, a set recreates
\* the directory and stores its entry, a get returns None and an exists
\* returns False; no operation ends with an error.
C29_MissingDirectory ==
    [][\A p \in Procs :
        /\ (pc[p] = "done" /\ pc'[p] # "done" /\ op'[p].name = "set") => cacheDir'
        /\ (pc[p] # "done" /\ pc'[p] = "done") =>
            LET r == res'[p] IN
            /\ r.tag \notin Raised
            /\ r.name = "set" =>
                  /\ r.tag = "ok"
                  /\ cacheDir'
                  /\ dirData'[r.key] # 0
                  /\ deserialize(content'[dirData'[r.key]]) = op[p].entry
            /\ (r.name = "get" /\ ~cacheDir) => r.tag = "none"
            /\ (r.name = "exists" /\ ~cacheDir) => (r.tag = "bool" /\ ~r.b)]_vars

\* C30: a get that cannot read the existing entry file for a reason other
\* than its content (permission denied) raises the error to the caller and
\* leaves the file in place; only a file whose content is not a well-formed
\* entry is deleted and reported as a miss.
C30_ReadErrorPropagates ==
    [][\A p \in Procs :
        (pc[p] = "get_read" /\ pc'[p] # "get_read"
            /\ dirData[Key(p)] # 0 /\ Key(p) \in denied) =>
                /\ pc'[p] = "finally"
                /\ res'[p].tag = "OSError"
                /\ dirData' = dirData]_vars
    /\ [][\A p \in Procs :
            (pc[p] = "get_unlink" /\ pc'[p] # "get_unlink" /\ dirData[Key(p)] # 0) =>
                ~WellFormed(content[dirData[Key(p)]])]_vars

----------------------------------------------------------------------------
(* Identity of ordinary arguments under bound-entity exclusion.            *)

\* The two calls of the run have the same receiver and differ only in which
\* of two distinct instances of one class they pass for x.
OtherInstanceAsArgument ==
    LET c1 == cfg.calls[1]
        c2 == cfg.calls[2] IN
    /\ SameShape(c1, c2)
    /\ ArgOf(c1, 1) = ArgOf(c2, 1)
    /\ ArgOf(c1, 3) = ArgOf(c2, 3)
    /\ ArgOf(c1, 2).kind = "obj" /\ ArgOf(c2, 2).kind = "obj"
    /\ ArgOf(c1, 2).cls = ArgOf(c2, 2).cls
    /\ ArgOf(c1, 2).id # ArgOf(c2, 2).id

\* C40: with ignore_self in effect, two calls that differ only in which of
\* two distinct instances of one class is passed as an ordinary argument
\* that is part of the key have different keys.
C40_OrdinaryArgumentsKeepIdentity ==
    (OtherInstanceAsArgument /\ FuncCallOf(1).ignore_self
        /\ ~Excluded(FuncCallOf(1), "x")) =>
            \A k1 \in keyOf[1], k2 \in keyOf[2] : k1 # k2

----------------------------------------------------------------------------
(* Keyword arguments and dict-valued arguments written in either order.    *)

\* The calls f(a=.., b=2): a is an int or a dict {p: 1, q: 2} built in
\* either order, and the keyword arguments come in either order.
OrderCalls ==
    { KeywordCall(a, IntVal(2), order) :
        a \in { IntVal(1),
                Mapping(<< [name |-> "p", value |-> 1], [name |-> "q", value |-> 2] >>),
                Mapping(<< [name |-> "q", value |-> 2], [name |-> "p", value |-> 1] >>) },
        order \in {"ab", "ba"} }

InitOrder ==
    /\ \E b \in {"memory", "file"}, c1 \in OrderCalls, c2 \in OrderCalls,
          kp \in {{}, {"a", "b"}} :
        cfg = [backend |-> b, callers |-> {1}, keys |-> {1, 2}, entries |-> {},
               resultType |-> "SampleData", outcomes |-> {"return"}, reconfigure |-> FALSE,
               calls |-> CallPair(c1, c2), ignore_self |-> FALSE,
               settings |-> KeySettings(kp, FALSE)]
    /\ InitFile
    /\ InitMem
    /\ InitCalls

NextOrder ==
    \/ \E p \in Procs : WStart(p)
    \/ \E p \in Procs : WGet(p)
    \/ \E p \in Procs : WExecute(p)
    \/ \E p \in Procs : WPersist(p)
    \/ \E p \in Procs : WReturn(p)

SpecOrder == InitOrder /\ [][NextOrder]_vars

\* Two values are the same up to the order in which a dict's items were
\* inserted.
SameValue(v1, v2) ==
    /\ v1.kind = v2.kind /\ v1.cls = v2.cls /\ v1.id = v2.id
    /\ {v1.items[i] : i \in DOMAIN v1.items} = {v2.items[i] : i \in DOMAIN v2.items}

\* The two calls of the run pass the same keyword arguments, in whatever
\* order.
SameKeywordArguments ==
    LET c1 == cfg.calls[1]
        c2 == cfg.calls[2] IN
    /\ c1.func = c2.func /\ c1.args = c2.args
    /\ Len(c1.kwargs) = Len(c2.kwargs)
    /\ \A i \in DOMAIN c1.kwargs : \E j \in DOMAIN c2.kwargs :
            /\ c1.kwargs[i].name = c2.kwargs[j].name
            /\ SameValue(c1.kwargs[i].value, c2.kwargs[j].value)

\* C39: without key_parameters, two calls that pass the same keyword
\* arguments in different orders, or dicts with the same items inserted in
\* different orders, are given the same key, and the second one is a hit on
\* the entry of the first.
C39_KeywordOrderIrrelevant ==
    (SameKeywordArguments /\ cfg.settings.key_parameters = {}) =>
        /\ \A k1 \in keyOf[1], k2 \in keyOf[2] : k1 = k2
        /\ \A p \in Procs :
            (wpc[p] = "idle" /\ ret[p].tag = "value"
                /\ ncalls[1] > 0 /\ ncalls[2] > 0 /\ ret[p].callno = 1
                /\ first[1] # NoPay /\ first[2] # NoPay) =>
                    (runs = 1)

----------------------------------------------------------------------------
(* Entries whose declared type cannot be resolved.                         *)

\* The entry file of key k parses and declares a data type that
\* importlib.import_module + getattr cannot resolve.
UnresolvableStored(k) ==
    /\ dirData[k] # 0
    /\ WellFormed(content[dirData[k]])
    /\ ~Resolvable(content[dirData[k]][1].json.data_type)

\* C31: on the file backend, when the stored entry of a call's key declares a
\* data type that cannot be resolved, get raises the resolution error, the
\* call of the memoized function ends with that error, the entry file is left
\* in place unchanged and the wrapped function is not executed.
C31_UnresolvableTypePropagates ==
    [][\A p \in Procs :
        (WGet(p) /\ cfg.backend = "file" /\ UnresolvableStored(Slot(KeyOf(wcall[p].arg)))) =>
            LET k == Slot(KeyOf(wcall[p].arg)) IN
            /\ FileLookup(k).tag = "AttributeError"
            /\ wpc'[p] = "idle"
            /\ ret'[p].tag = "AttributeError"
            /\ ~ret'[p].invoked
            /\ dirData' = dirData
            /\ content'[dirData[k]] = content[dirData[k]]
            /\ runs' = runs]_vars

C31_Witness ==
    \E p \in Procs :
        /\ cfg.backend = "file" /\ cfg.resultType = "LocalModel"
        /\ wpc[p] = "idle" /\ ret[p].tag = "AttributeError"
        /\ ret[p].callno = 2 /\ ~ret[p].invoked
        /\ UnresolvableStored(Slot(KeyOf(ret[p].arg)))
        /\ runs = 1

----------------------------------------------------------------------------
(* serialize and deserialize as functions on entries.                      *)

\* Payloads of the supported types: primitives, a mapping, datetimes, a
\* model importable by its qualified name.
RoundPayloads ==
    { Pay("int", Num(1)), Pay("int", Num(2)), Pay("str", Num(1)), Pay("dict", Num(1)),
      Pay("datetime", Iso(0)), Pay("datetime", Iso(1)), Pay("SampleData", Num(1)) }

RoundEntries ==
    { CacheEntry(ModelMetadata(t, t, x, <<>>, FALSE, _qualified_name(d)), d) :
        t \in 0..MaxTime, x \in {NoTime, MaxTime}, d \in RoundPayloads }

InitRound ==
    /\ \E e1 \in RoundEntries, e2 \in RoundEntries :
        cfg = [backend |-> "file", callers |-> {1}, keys |-> {1}, entries |-> {e1, e2},
               settings |-> CacheSettings]
    /\ InitFile
    /\ InitMem
    /\ InitCalls

\* text = cache.serialize(e)
Serialize(e) ==
    /\ lastSet' = [lastSet EXCEPT ![1] = e]
    /\ content' = [content EXCEPT ![1] = serialize(e)]
    /\ memRes' = Outcome("serialize", 1, "text", NoEntry, FALSE)
    /\ UNCHANGED <<cfg, regVars, pc, op, res, timer, dirLock, lockHolder, lockFd, dirData, dirTmp,
                   fd, blk, dirVars, damage, mem, memLast, wrapVars>>

\* cache.deserialize(text), on the text serialize produced.
Deserialize ==
    /\ memRes.name = "serialize"
    /\ LET out == DeserializeOutcome(content[1]) IN
        memRes' = IF out = "ok"
                  THEN Outcome("deserialize", 1, "entry", deserialize(content[1]), FALSE)
                  ELSE Outcome("deserialize", 1, out, NoEntry, FALSE)
    /\ UNCHANGED <<cfg, regVars, fileVars, wrapVars, mem, memLast>>

NextRound ==
    \/ \E e \in cfg.entries : Serialize(e)
    \/ Deserialize

SpecRound == InitRound /\ [][NextRound]_vars

\* C32: for an entry with a payload of a supported type,
\* deserialize(serialize(entry)) is an entry whose metadata and data are equal
\* by value to those of the original.
C32_RoundTrip ==
    (memRes.name = "deserialize" /\ content[1] = serialize(lastSet[1])) =>
        /\ memRes.tag = "entry"
        /\ memRes.entry.metadata = lastSet[1].metadata
        /\ memRes.entry.data = lastSet[1].data

----------------------------------------------------------------------------
(* The type registry.                                                      *)

MaxValue == 2

\* cache_instance.settings of any instance plays no part: the tables are
\* attributes of the class TypeRegistry.
InitRegistry ==
    /\ cfg = [backend |-> "memory", callers |-> {1}, keys |-> {1}, entries |-> {},
              settings |-> CacheSettings]
    /\ InitFile
    /\ InitMem
    /\ InitCalls

\* @TypeRegistry.register(T) applied to a serializer of the caller's.
Register(T) ==
    /\ registry' = register(registry, T, "custom")
    /\ UNCHANGED <<cfg, fileVars, memVars, wrapVars, coded>>

\* @TypeRegistry.register_deserializer(name) applied to a deserializer.
RegisterDeserializer(name) ==
    /\ registry' = register_deserializer(registry, name, CustomDeserializer)
    /\ UNCHANGED <<cfg, fileVars, memVars, wrapVars, coded>>

\* TypeRegistry.register_pydantic_model(T, ...)
RegisterModel(T, custom_serializer, custom_deserializer) ==
    /\ registry' = register_pydantic_model(registry, T, custom_serializer, custom_deserializer)
    /\ UNCHANGED <<cfg, fileVars, memVars, wrapVars, coded>>

\* serialized = custom_encoder(T(value=v))
Encode(T, v) ==
    /\ registry' = custom_encoder_registers(registry, Instance(T, v))
    /\ coded' = [op |-> "encode", given |-> Instance(T, v),
                 gave |-> custom_encoder_model(registry, Instance(T, v)),
                 registered |-> is_registered(registry, T)]
    /\ UNCHANGED <<cfg, fileVars, memVars, wrapVars>>

\* deserialized = custom_decoder(serialized)
Decode ==
    /\ coded.op = "encode"
    /\ coded' = [op |-> "decode", given |-> coded.given,
                 gave |-> custom_decoder(registry, coded.gave),
                 registered |-> coded.registered]
    /\ UNCHANGED <<cfg, fileVars, memVars, wrapVars, registry>>

NextRegistry ==
    \/ \E T \in ModelTypes : Register(T)
    \/ \E name \in TypeNames : RegisterDeserializer(name)
    \/ \E T \in ModelTypes, cs \in BOOLEAN, cd \in BOOLEAN : RegisterModel(T, cs, cd)
    \/ \E T \in ModelTypes, v \in 1..MaxValue : Encode(T, v)
    \/ Decode

SpecRegistry == InitRegistry /\ [][NextRegistry]_vars

\* C33: a class that is registered stays registered; encoding an instance of
\* an unregistered model class registers the generic serializer and the
\* generic deserializer of that class, and decoding the produced envelope
\* with the registry so left gives an instance equal to the encoded one;
\* encoding an instance of a registered class leaves the serializer of that
\* class as it was.
C33_TypeRegistry ==
    [][/\ \A T \in ModelTypes : is_registered(registry, T) => is_registered(registry', T)
       /\ \A T \in ModelTypes, v \in 1..MaxValue :
            Encode(T, v) =>
                /\ is_registered(registry', T)
                /\ ~is_registered(registry, T) =>
                        /\ registry'.serializers[T] = "generic"
                        /\ registry'.deserializers[type_name(T)] = GenericDeserializer(T)
                        /\ custom_decoder(registry', coded'.gave) = Instance(T, v)
                /\ is_registered(registry, T) =>
                        registry'.serializers[T] = registry.serializers[T]]_vars

\* An instance of an unregistered class was encoded and then decoded to an
\* equal instance, while another class had its own serializer registered and
\* kept it through an encoding.
C33_Witness ==
    /\ coded.op = "decode" /\ ~coded.registered
    /\ coded.given.cls = "LocalModel" /\ coded.gave = coded.given
    /\ registry.serializers["LocalModel"] = "generic"
    /\ registry.serializers["SampleData"] = "custom"

----------------------------------------------------------------------------
(* An expiration expression the date parser rejects.                       *)

\* The cache directory as an earlier run left it: empty, or holding the
\* entry of the call f(1), stored at the instant 0 with or without an
\* expiry instant.
EarlierEntries ==
    { NoEntry,
      CacheEntry(ModelMetadata(0, 0, NoTime, <<IntVal(1)>>, FALSE, "tests.SampleData"),
                 Pay("SampleData", Num(0))),
      CacheEntry(ModelMetadata(0, 0, 1, <<IntVal(1)>>, FALSE, "tests.SampleData"),
                 Pay("SampleData", Num(0))) }

InitReject ==
    /\ \E b \in {"memory", "file"}, tc \in TimeChecks, e \in EarlierEntries,
          x \in {Text(1, "h"), Text(1, "soon")} :
        /\ (b = "memory") => (e = NoEntry)
        /\ cfg = [backend |-> b, callers |-> {1}, keys |-> {1}, entries |-> {e},
                  resultType |-> "SampleData", outcomes |-> {"return"}, reconfigure |-> FALSE,
                  calls |-> [a \in Keys |-> PlainCall(a)], ignore_self |-> FALSE,
                  settings |-> ValidSettings(x, tc)]
        /\ dirData = [k \in Keys |-> IF k = 1 /\ e # NoEntry THEN 1 ELSE 0]
        /\ content = [i \in DataInodes |-> IF i = 1 /\ e # NoEntry THEN serialize(e) ELSE <<>>]
    /\ pc = [p \in Procs |-> "done"]
    /\ op = [p \in Procs |-> NoOp]
    /\ res = [p \in Procs |-> Outcome("none", 1, "init", NoEntry, FALSE)]
    /\ timer = [p \in Procs |-> 0]
    /\ dirLock = [k \in Keys |-> 0]
    /\ lockHolder = [i \in LockInodes |-> 0]
    /\ lockFd = [p \in Procs |-> 0]
    /\ dirTmp = [k \in Keys |-> 0]
    /\ fd = [p \in Procs |-> 0]
    /\ blk = [p \in Procs |-> {}]
    /\ cacheDir = TRUE
    /\ denied = {}
    /\ lastSet = [k \in Keys |-> NoEntry]
    /\ damage = [k \in Keys |-> "none"]
    /\ InitMem
    /\ InitCalls

NextReject ==
    \/ \E p \in Procs : WStart(p)
    \/ \E p \in Procs : WGet(p)
    \/ \E p \in Procs : WExecute(p)
    \/ \E p \in Procs : WPersist(p)
    \/ \E p \in Procs : WReturn(p)
    \/ Pass

SpecReject == InitReject /\ [][NextReject]_vars

\* C34: with cache_only off and an expiration expression the parser rejects,
\* every call of the memoized function ends with the parse error (ValueError)
\* and no step of it changes what the backend holds.
C34_RejectedExpirationSurfaces ==
    [][\A p \in Procs :
        (/\ wpc[p] # "idle"
         /\ cfg.settings.expiration.kind = "str" /\ Rejected(cfg.settings.expiration)
         /\ ~cfg.settings.cache_only) =>
            /\ Stored' = Stored
            /\ (wpc'[p] = "idle") => (ret'[p].tag = "ValueError")]_vars

----------------------------------------------------------------------------
(* set when serialize or the write raises.                                 *)

\* Entries offered to set: two that json can encode, one that it cannot.
FaultEntries ==
    { create_cache_entry(Pay("SampleData", Num(1)), 0),
      create_cache_entry(Pay("SampleData", Num(2)), 0),
      create_cache_entry(Pay("object", Num(1)), 0) }

InitFault ==
    /\ cfg = [backend |-> "file", callers |-> {1}, keys |-> {1}, entries |-> FaultEntries,
              settings |-> CacheSettings]
    /\ InitFile
    /\ InitMem
    /\ InitCalls

NextFault ==
    \/ \E p \in Procs : Start(p)
    \/ \E p \in Procs : GetExists(p)
    \/ \E p \in Procs : LockOpen(p)
    \/ \E p \in Procs : LockAcquire(p)
    \/ \E p \in Procs : GetRead(p)
    \/ \E p \in Procs : SetOpen(p)
    \/ \E p \in Procs : SetWrite(p)
    \/ \E p \in Procs : SetWriteFails(p)
    \/ \E p \in Procs : SetFlush(p)
    \/ \E p \in Procs : SetReplace(p)
    \/ \E p \in Procs : SetCleanup(p)
    \/ \E p \in Procs : ExistsTest(p)
    \/ \E p \in Procs : Finally(p)
    \/ \E p \in Procs : LockUnlink(p)

SpecFault == InitFault /\ [][NextFault]_vars

\* The entry file of k holds the complete text of the entry the last
\* successful set stored, or is absent if there was none.
PreviousEntryIntact(k) ==
    IF lastSet[k] = NoEntry THEN dirData[k] = 0
    ELSE dirData[k] # 0 /\ content[dirData[k]] = serialize(lastSet[k])

\* C35: a set on the file backend in which serialize or the write to the
\* temporary file raised ends with that error; when it has ended, the entry
\* file holds the complete previous entry or is still absent, the temporary
\* file is gone and the lock is released.
C35_FailedSetLeavesPrevious ==
    /\ \A p \in Procs :
        (pc[p] \in {"set_cleanup", "finally", "lock_unlink"} /\ op[p].name = "set"
            /\ ~Serializable(op[p].entry.data)) => res[p].tag = "ValueError"
    /\ \A p \in Procs :
        (pc[p] = "done" /\ res[p].name = "set" /\ res[p].tag \in {"ValueError", "OSError"}) =>
            /\ PreviousEntryIntact(res[p].key)
            /\ dirTmp[res[p].key] = 0
            /\ dirLock[res[p].key] = 0
            /\ lockFd[p] = 0
            /\ \A i \in LockInodes : lockHolder[i] # p

C35_Witness ==
    \E p \in Procs :
        /\ pc[p] = "done" /\ res[p].name = "set" /\ res[p].tag = "OSError"
        /\ lastSet[res[p].key] # NoEntry /\ PreviousEntryIntact(res[p].key)
        /\ dirTmp[res[p].key] = 0

----------------------------------------------------------------------------
(* The call after a call that failed with a fallback value.                *)

\* The kinds of fallback value an error carries in save_var.
FallbackTypes == {"SampleData", "dict", "int", "datetime"}

InitFallback ==
    /\ \E b \in {"memory", "file"}, t \in FallbackTypes,
          x \in {NoExpiration, Seconds(HourSeconds)}, am \in BOOLEAN :
        cfg = [backend |-> b, callers |-> {1}, keys |-> {1}, entries |-> {},
               resultType |-> t, outcomes |-> {"return", "fallback"},
               reconfigure |-> FALSE,
               calls |-> [a \in Keys |-> PlainCall(a)], ignore_self |-> FALSE,
               settings |-> [expiration |-> x, time_check |-> "CREATION",
                             key_parameters |-> {}, ignore_self |-> FALSE,
                             cache_only |-> FALSE,
                             return_metadata_as_member |-> am,
                             return_metadata_on_primitives |-> FALSE]]
    /\ InitFile
    /\ InitMem
    /\ InitCalls

NextFallback ==
    \/ \E p \in Procs : WStart(p)
    \/ \E p \in Procs : WGet(p)
    \/ \E p \in Procs : WExecute(p)
    \/ \E p \in Procs : WPersist(p)
    \/ \E p \in Procs : WRaise(p)
    \/ \E p \in Procs : WReturn(p)
    \/ Pass

SpecFallback == InitFallback /\ [][NextFallback]_vars

\* C36: the call that follows a call in which the wrapped function raised an
\* error carrying a fallback value, with the same key and while the stored
\* entry is valid, returns the fallback value, marked from_cache, without
\* executing the function and without raising.
C36_FallbackServedAsHit ==
    \A p \in Procs :
        (/\ wpc[p] = "idle"
         /\ ret[p].tag \notin {"init", "running"}
         /\ ret[p].prev = "fallback"
         /\ ret[p].found = "valid") =>
            /\ ~ret[p].invoked
            /\ ret[p].tag = "value"
            /\ ret[p].data = func(runs)
            /\ ret[p].from_cache

----------------------------------------------------------------------------
(* Two callers of the memoized function on one key.                        *)

InitRace ==
    /\ \E b \in {"memory", "file"}, t \in {"SampleData", "int"}, am \in BOOLEAN :
        cfg = [backend |-> b, callers |-> Procs, keys |-> {1}, entries |-> {},
               resultType |-> t, outcomes |-> {"return"}, reconfigure |-> FALSE,
               calls |-> [a \in Keys |-> PlainCall(a)], ignore_self |-> FALSE,
               settings |-> [expiration |-> NoExpiration, time_check |-> "CREATION",
                             key_parameters |-> {}, ignore_self |-> FALSE,
                             cache_only |-> FALSE,
                             return_metadata_as_member |-> am,
                             return_metadata_on_primitives |-> FALSE]]
    /\ InitFile
    /\ InitMem
    /\ InitCalls

NextRace ==
    \/ \E p \in Procs : WStart(p)
    \/ \E p \in Procs : WGet(p)
    \/ \E p \in Procs : WExecute(p)
    \/ \E p \in Procs : WPersist(p)
    \/ \E p \in Procs : WReturn(p)

SpecRace == InitRace /\ [][NextRace]_vars

\* What the backend holds for its key once the entry e has been set.
StoredEntry(e) ==
    [entry |-> IF cfg.backend = "memory" THEN e ELSE NoEntry,
     text |-> IF cfg.backend = "file" THEN serialize(e) ELSE <<>>]

----------------------------------------------------------------------------
(* file_cache(settings, overrides...) applied to a second function.        *)

\* The keyword arguments of file_cache that the settings record of this
\* model has a field for, and the value each is given when it is passed.
OverrideFields ==
    {"expiration", "time_check", "cache_only", "return_metadata_as_member",
     "return_metadata_on_primitives"}

OverrideValues ==
    [expiration |-> Seconds(HourSeconds), time_check |-> "EXPIRES_AT", cache_only |-> TRUE,
     key_parameters |-> {}, ignore_self |-> FALSE,
     return_metadata_as_member |-> FALSE, return_metadata_on_primitives |-> TRUE]

\* file_cache.decorator, lines 144-160: every keyword argument that is not
\* None is assigned to the field of cache_settings.
file_cache_overrides(cache_settings, passed) ==
    [f \in DOMAIN cache_settings |->
        IF f \in passed THEN OverrideValues[f] ELSE cache_settings[f]]

\* f was decorated with file_cache(settings=S); shared tells whether the
\* second function g will be given the same object S or one of its own.
InitOverride ==
    /\ \E shared \in BOOLEAN, t \in {"SampleData", "dict"} :
        cfg = [backend |-> "file", callers |-> {1}, keys |-> {1}, entries |-> {},
               resultType |-> t, outcomes |-> {"return"}, reconfigure |-> FALSE,
               calls |-> [a \in Keys |-> PlainCall(a)], ignore_self |-> FALSE,
               settings |-> CacheSettings, decorated |-> CacheSettings,
               shared |-> shared, second |-> FALSE, other |-> CacheSettings]
    /\ InitFile
    /\ InitMem
    /\ InitCalls

\* g = file_cache(settings=..., <passed>)(g): the decorator assigns the
\* overrides to the settings object it was given (lines 142-160) and builds
\* a FileCache on it, which makes sure the directory exists (line 162).
DecorateSecond(passed) ==
    /\ ~cfg.second
    /\ \A p \in Procs : wpc[p] = "idle"
    /\ cfg' = [cfg EXCEPT !.second = TRUE,
                          !.settings = IF cfg.shared THEN file_cache_overrides(@, passed) ELSE @,
                          !.other = file_cache_overrides(IF cfg.shared THEN cfg.settings ELSE @,
                                                         passed)]
    /\ cacheDir' = TRUE
    /\ UNCHANGED <<regVars, memVars, wrapVars, denied, pc, op, res, timer, dirLock, lockHolder,
                   lockFd, dirData, dirTmp, content, fd, blk, ghostVars>>

NextOverride ==
    \/ \E p \in Procs : WStart(p)
    \/ \E p \in Procs : WGet(p)
    \/ \E p \in Procs : WExecute(p)
    \/ \E p \in Procs : WPersist(p)
    \/ \E p \in Procs : WReturn(p)
    \/ \E passed \in SUBSET OverrideFields : DecorateSecond(passed)
    \/ Pass

SpecOverride == InitOverride /\ [][NextOverride]_vars

\* C38: the overrides passed to file_cache when a second function is
\* decorated, with the settings object of the first or with another, leave
\* the configuration of the first function as it was: every call of the
\* first function runs with the settings it was decorated with, and ends in
\* cache-only mode only if it was decorated so.
C38_OverridesAreLocal ==
    \A p \in Procs :
        /\ (wpc[p] # "idle") => (cfg.settings = cfg.decorated)
        /\ (wpc[p] = "idle" /\ ret[p].tag \notin {"init", "running"}) =>
                (ret[p].cache_only = cfg.decorated.cache_only)

====
